---- MODULE Spec2Model ----
(***************************************************************************)
(* PawShionista: the local entity store (services/dbService.ts), the       *)
(* LiveSell cart / checkout component and the Orders, Customers and Bales  *)
(* views that mutate the store.                                            *)
(*                                                                         *)
(* The store's collections are the localStorage keys paw_products,         *)
(* paw_orders, paw_customers and paw_bales.  Store methods are operators   *)
(* from a store record d = [products, orders, customers, bales] to the     *)
(* store record they leave behind; the fire-and-forget remote mirror       *)
(* calls do not touch the local collections and are not part of d.         *)
(*                                                                         *)
(* An event handler is an action of the component that is mounted          *)
(* (variable view).  The action is enabled when the element the handler is *)
(* attached to is rendered and not disabled; what it does is the handler,  *)
(* early returns included.  A handler is also an operator that gives the   *)
(* state it leaves behind, so that a property can speak of a call of the   *)
(* handler in any state.                                                   *)
(*                                                                         *)
(* A product row is keyed by the deterministic id                          *)
(* live_{baleId}_{price}[_f], modelled as the tuple                        *)
(* <<baleId, price, isFreebie>>.  A customer row is keyed by its username  *)
(* (ids and usernames correspond one to one).                              *)
(***************************************************************************)
EXTENDS Integers, Sequences, FiniteSets, TLC

VARIABLES
    products,        \* paw_products : product id -> [baleBatch, sellingPrice, stock]
    orders,          \* paw_orders   : sequence of Order rows
    customers,       \* paw_customers: username -> Customer row
    bales,           \* paw_bales    : bale id -> [name, status, itemCount]
    view,            \* App.activeTab: the mounted view
    username,        \* LiveSell state
    selectedBaleId,  \* LiveSell state ("" = none)
    cart,            \* LiveSell state: sequence of CartItem, newest first
    useVipTicket,    \* LiveSell state
    allCustomers,    \* LiveSell state: snapshot of db.getCustomers()
    oosModalData,    \* LiveSell state: out-of-stock notification or NoData
    vipDiscountType, \* LiveSell state: 'NONE', 'FIXED' or 'PERCENTAGE'
    vipDiscount,     \* LiveSell state: the number typed into the discount input
    txPaymentMethod, \* LiveSell state: payment method of the transaction ("" = later)
    txAmountPaid,    \* LiveSell state: tendered amount, <<>> for '' or <<n>>
    feedback,        \* LiveSell state: feedback banner or NoFeedback
    clock,           \* Date.now(), one tick per order id prefix handed out
    lastCall,        \* history: the DBService method the last step of StoreSpec
                     \* called and the bale whose status that call recomputed
    supabase,        \* the remote tables, the mirror calls in flight and the
                     \* rows a sync has fetched
    devices,         \* the remote devices table: the row of this device, the
                     \* UPDATE events on their way to the realtime channel
    app              \* App state: checkStatus, currentDevice, isLoading,
                     \* justApproved and the asynchronous callbacks in flight

vars == <<products, orders, customers, bales, view, username, selectedBaleId,
          cart, useVipTicket, allCustomers, oosModalData, vipDiscountType, vipDiscount,
          txPaymentMethod, txAmountPaid, feedback, clock, lastCall, supabase, devices, app>>

(***************************************************************************)
(* Bounds of the model.                                                    *)
(***************************************************************************)
MaxCheckouts == 2     \* checkouts per behaviour of Spec
MaxAdds == 1          \* addOrder calls per behaviour of StoreSpec
MaxStock == 2         \* largest stock a status change may leave on a product row
MaxLogs == 2          \* log lines per order

(***************************************************************************)
(* Enumerations of types.ts and the values the inputs are drawn from.      *)
(***************************************************************************)
UNPAID == "Unpaid"
PARTIAL == "Partial"
PAID == "Paid"
PENDING == "Pending"
SHIPPED == "Shipped"
RTS == "RTS"
CANCELLED == "Cancelled"
PaymentStatus == {UNPAID, PARTIAL, PAID}
GCASH == "GCash"
MAYA == "Maya"
ShippingStatus == {PENDING, SHIPPED, RTS, CANCELLED}
BaleStatus == {"Ordered", "Arrived", "On Sale", "Sold Out"}

NoBale == ""
NoUser == ""
NoData == [name |-> "", total |-> -1, sold |-> -1]
NoFeedback == "null"
\* an optional field of a stored row that is absent (JSON drops undefined)
Undefined == "undefined"

SessionId == "s1"
Usernames == {"ann", "bob"}
BaleIds == {"B001", "B002"}
PresetPrices == {100}
Views == {"livesell", "orders", "bales"}

\* INITIAL_BALES, INITIAL_CUSTOMERS with the item counts scaled down
InitialBales ==
    [b \in BaleIds |->
        IF b = "B001"
        THEN [name |-> "Spring/Summer Selection 2024", status |-> "On Sale", itemCount |-> 2]
        ELSE [name |-> "Premium Korean Knit Bale", status |-> "Arrived", itemCount |-> 1]]

InitialCustomers ==
    [u \in {"ann", "bob"} |->
        IF u = "ann"
        THEN [isVIP |-> TRUE, vipTickets |-> 1, isBlacklisted |-> FALSE,
              totalSpent |-> 0, orderCount |-> 0]
        ELSE [isVIP |-> FALSE, vipTickets |-> 0, isBlacklisted |-> TRUE,
              totalSpent |-> 0, orderCount |-> 0]]

DB == [products |-> products, orders |-> orders, customers |-> customers, bales |-> bales]

(***************************************************************************)
(* Helpers over sequences of rows.                                         *)
(***************************************************************************)
RECURSIVE SumQuantity(_)
SumQuantity(s) == IF s = <<>> THEN 0 ELSE Head(s).quantity + SumQuantity(Tail(s))

RECURSIVE SumTotalPrice(_)
SumTotalPrice(s) == IF s = <<>> THEN 0 ELSE Head(s).totalPrice + SumTotalPrice(Tail(s))

RECURSIVE SumCartTotal(_)
SumCartTotal(s) ==
    IF s = <<>> THEN 0 ELSE Head(s).price * Head(s).quantity + SumCartTotal(Tail(s))

\* Array.prototype.filter on the orders array
FilterOrders(s, Keep(_)) == SelectSeq(s, Keep)

\* Array.prototype.findIndex by order id (0 = not found)
RECURSIVE FindOrderFrom(_, _, _)
FindOrderFrom(s, id, i) ==
    IF i > Len(s) THEN 0
    ELSE IF s[i].id = id THEN i ELSE FindOrderFrom(s, id, i + 1)
FindOrder(s, id) == FindOrderFrom(s, id, 1)

(***************************************************************************)
(* DBService                                                               *)
(***************************************************************************)
\* the sold count refreshBaleStatus computes for a bale
SoldCount(d, baleId) ==
    LET baleProductIds == {p \in DOMAIN d.products : d.products[p].baleBatch = baleId}
        Counted(o) == o.productId \in baleProductIds /\ o.shippingStatus # CANCELLED
    IN SumQuantity(FilterOrders(d.orders, Counted))

refreshBaleStatus(d, baleId) ==
    IF baleId \notin DOMAIN d.bales THEN d
    ELSE LET bale == d.bales[baleId]
             soldCount == SoldCount(d, baleId)
             newStatus ==
                 IF soldCount >= bale.itemCount /\ bale.itemCount > 0 THEN "Sold Out"
                 ELSE IF soldCount > 0 /\ soldCount < bale.itemCount
                         /\ bale.status \in {"Ordered", "Arrived", "Sold Out"}
                      THEN "On Sale"
                      ELSE bale.status
         IN [d EXCEPT !.bales[baleId].status = newStatus]

updateProduct(d, id, product) ==
    [d EXCEPT !.products = [p \in DOMAIN d.products \cup {id} |->
                               IF p = id THEN product ELSE d.products[p]]]

updateCustomer(d, u, customer) ==
    [d EXCEPT !.customers = [c \in DOMAIN d.customers \cup {u} |->
                                IF c = u THEN customer ELSE d.customers[c]]]

\* stored customers always carry a numeric vipTickets (types.ts), so the
\* legacy normalisation of an undefined vipTickets never fires
getOrCreateCustomer(d, u) ==
    IF u \in DOMAIN d.customers THEN d
    ELSE updateCustomer(d, u, [isVIP |-> FALSE, vipTickets |-> 0, isBlacklisted |-> FALSE,
                               totalSpent |-> 0, orderCount |-> 0])

\* the baleIdToUpdate of addOrder (NoBale = null)
addOrderBale(d, order) ==
    IF order.productId \in DOMAIN d.products
    THEN d.products[order.productId].baleBatch ELSE NoBale

\* addOrder with the freebie test on the stock decrement left out
addOrder_DecrementsFreebie(d, order) ==
    LET d1 == [d EXCEPT !.orders = Append(@, order)]
        found == order.productId \in DOMAIN d1.products
        d2 == IF found
              THEN [d1 EXCEPT !.products[order.productId].stock = @ - order.quantity]
              ELSE d1
        baleIdToUpdate == addOrderBale(d1, order)
        d3 == getOrCreateCustomer(d2, order.customerUsername)
        customer == d3.customers[order.customerUsername]
        d4 == updateCustomer(d3, order.customerUsername,
                             [customer EXCEPT !.orderCount = @ + order.quantity,
                                              !.totalSpent = @ + order.totalPrice])
    IN IF baleIdToUpdate # NoBale THEN refreshBaleStatus(d4, baleIdToUpdate) ELSE d4

addOrder(d, order) ==
    LET d1 == [d EXCEPT !.orders = Append(@, order)]
        found == order.productId \in DOMAIN d1.products
        d2 == IF ~order.isFreebie /\ found
              THEN [d1 EXCEPT !.products[order.productId].stock = @ - order.quantity]
              ELSE d1
        baleIdToUpdate == addOrderBale(d1, order)
        d3 == getOrCreateCustomer(d2, order.customerUsername)
        customer == d3.customers[order.customerUsername]
        d4 == updateCustomer(d3, order.customerUsername,
                             [customer EXCEPT !.orderCount = @ + order.quantity,
                                              !.totalSpent = @ + order.totalPrice])
    IN IF baleIdToUpdate # NoBale THEN refreshBaleStatus(d4, baleIdToUpdate) ELSE d4

\* returnsStock with the test of the stored order's previous status left out
returnsStock_IgnoresOldStatus(d, order) ==
    LET index == FindOrder(d.orders, order.id)
    IN /\ index # 0
       /\ order.shippingStatus \in {CANCELLED, RTS}
       /\ order.productId \in DOMAIN d.products

\* the condition under which updateOrder hands the stock back
returnsStock(d, order) ==
    LET index == FindOrder(d.orders, order.id)
    IN /\ index # 0
       /\ order.shippingStatus \in {CANCELLED, RTS}
       /\ d.orders[index].shippingStatus \notin {CANCELLED, RTS}
       /\ order.productId \in DOMAIN d.products

\* the baleIdToUpdate of updateOrder (NoBale = null)
updateOrderBale(d, order) ==
    IF returnsStock(d, order) THEN d.products[order.productId].baleBatch ELSE NoBale

updateOrder(d, order) ==
    LET index == FindOrder(d.orders, order.id)
    IN IF index = 0 THEN d
       ELSE LET d1 == IF returnsStock(d, order)
                      THEN [d EXCEPT !.products[order.productId].stock = @ + order.quantity]
                      ELSE d
                baleIdToUpdate == updateOrderBale(d, order)
                d2 == [d1 EXCEPT !.orders[index] = order]
            IN IF baleIdToUpdate # NoBale THEN refreshBaleStatus(d2, baleIdToUpdate) ELSE d2

\* the baleIdToUpdate of deleteOrder (NoBale = null)
deleteOrderBale(d, id) ==
    LET index == FindOrder(d.orders, id)
    IN IF index # 0 /\ d.orders[index].productId \in DOMAIN d.products
       THEN d.products[d.orders[index].productId].baleBatch ELSE NoBale

deleteOrder(d, id) ==
    LET baleIdToUpdate == deleteOrderBale(d, id)
        Other(o) == o.id # id
        d1 == [d EXCEPT !.orders = FilterOrders(@, Other)]
    IN IF baleIdToUpdate # NoBale THEN refreshBaleStatus(d1, baleIdToUpdate) ELSE d1

updateBale(d, id, bale) ==
    [d EXCEPT !.bales = [b \in DOMAIN d.bales \cup {id} |->
                            IF b = id THEN bale ELSE d.bales[b]]]


(***************************************************************************)
(* The remote mirror of DBService and syncWithSupabase.  A mirror call is  *)
(* fired and forgotten: it is in flight until it completes at the remote   *)
(* tables or fails.                                                        *)
(***************************************************************************)
\* the remote tables equal to the store d, no call in flight, nothing fetched
Synced(d) ==
    [products |-> d.products, orders |-> d.orders, customers |-> d.customers,
     bales |-> d.bales, calls |-> <<>>, fetched |-> <<>>, notify |-> FALSE]

\* supabase.from(table).op(row)
Call(table, op, key, row) == [table |-> table, op |-> op, key |-> key, row |-> row]

\* refreshBaleStatus(baleId): the call it fires when it changes the status of
\* the bale from the store d to the store e
baleCalls(d, e, baleId) ==
    IF baleId # NoBale /\ baleId \in DOMAIN d.bales
       /\ e.bales[baleId].status # d.bales[baleId].status
    THEN <<Call("bales", "update", baleId, e.bales[baleId].status)>>
    ELSE <<>>

\* the mirror calls of updateProduct, addOrder, updateOrder and deleteOrder,
\* in the order they are fired
updateProductCalls(id, product) == <<Call("products", "upsert", id, product)>>

addOrderCalls(d, order) ==
    LET e == addOrder(d, order)
        u == order.customerUsername
    IN (IF ~order.isFreebie /\ order.productId \in DOMAIN d.products
        THEN <<Call("products", "update", order.productId, e.products[order.productId].stock)>>
        ELSE <<>>)
       \o (IF u \notin DOMAIN d.customers
           THEN <<Call("customers", "insert", u, getOrCreateCustomer(d, u).customers[u])>>
           ELSE <<>>)
       \o <<Call("customers", "upsert", u, e.customers[u])>>
       \o baleCalls(d, e, addOrderBale(d, order))
       \o <<Call("orders", "insert", order.id, order)>>

updateOrderCalls(d, order) ==
    LET e == updateOrder(d, order)
    IN IF FindOrder(d.orders, order.id) = 0 THEN <<>>
       ELSE (IF returnsStock(d, order)
             THEN <<Call("products", "update", order.productId,
                         e.products[order.productId].stock)>>
             ELSE <<>>)
            \o baleCalls(d, e, updateOrderBale(d, order))
            \o <<Call("orders", "upsert", order.id, order)>>

deleteOrderCalls(d, id) ==
    baleCalls(d, deleteOrder(d, id), deleteOrderBale(d, id))
    \o <<Call("orders", "delete", id, id)>>

\* the remote tables after the call c has completed
applyCall(r, c) ==
    LET index == IF c.table = "orders" THEN FindOrder(r.orders, c.key) ELSE 0
        Other(o) == o.id # c.key
    IN CASE c.table = "products" /\ c.op = "upsert" ->
               [r EXCEPT !.products = updateProduct(r, c.key, c.row).products]
         [] c.table = "products" /\ c.op = "update" ->
               IF c.key \in DOMAIN r.products
               THEN [r EXCEPT !.products[c.key].stock = c.row] ELSE r
         [] c.table = "customers" /\ c.op = "insert" ->
               IF c.key \in DOMAIN r.customers THEN r
               ELSE [r EXCEPT !.customers = updateCustomer(r, c.key, c.row).customers]
         [] c.table = "customers" /\ c.op = "upsert" ->
               [r EXCEPT !.customers = updateCustomer(r, c.key, c.row).customers]
         [] c.table = "bales" /\ c.op = "update" ->
               IF c.key \in DOMAIN r.bales
               THEN [r EXCEPT !.bales[c.key].status = c.row] ELSE r
         [] c.table = "orders" /\ c.op = "insert" ->
               IF index # 0 THEN r ELSE [r EXCEPT !.orders = Append(@, c.row)]
         [] c.table = "orders" /\ c.op = "upsert" ->
               IF index # 0 THEN [r EXCEPT !.orders[index] = c.row]
               ELSE [r EXCEPT !.orders = Append(@, c.row)]
         [] c.table = "orders" /\ c.op = "delete" ->
               [r EXCEPT !.orders = FilterOrders(@, Other)]

(***************************************************************************)
(* DeviceService (services/deviceService.ts) and the access gate of App    *)
(* (App.tsx).  The remote devices table holds at most one row for this     *)
(* device; an admin on another device approves, blocks, resets or deletes  *)
(* it.  A call of registerOrCheckDevice is in flight from its first        *)
(* attempt to its return; what the caller does with the result, up to its  *)
(* next await, is part of the step in which the call returns.              *)
(***************************************************************************)
MaxAdminOps == 2      \* status changes and deletions by the admin
MaxFailures == 3      \* failed performCheck attempts per behaviour
MaxEvents == 1        \* UPDATE events on their way to the realtime channel

\* null: no row, no device
NullDevice == [id |-> 0, status |-> "null"]

DeviceStatus == {"pending", "approved", "blocked"}

NoDevices == [row |-> NullDevice, nextId |-> 1, events |-> <<>>, ops |-> 0]

\* the callers of registerOrCheckDevice
Callers == {"initApp", "checkApprovalLoop", "handleManualCheck", "heartbeat"}

\* no call in flight
NotCalling == [pc |-> "idle", i |-> 0, waits |-> <<>>]

\* the first attempt of a call of registerOrCheckDevice is in flight
FirstAttempt == [pc |-> "check", i |-> 0, waits |-> <<>>]

NoApp ==
    [checkStatus |-> "checking", isLoading |-> TRUE, justApproved |-> FALSE,
     currentDevice |-> NullDevice, calls |-> [c \in Callers |-> NotCalling],
     realtime |-> 0, failures |-> 0]

\* the device has been approved and the main application is shown
ApprovedDevices == [NoDevices EXCEPT !.row = [id |-> 1, status |-> "approved"], !.nextId = 2]

ApprovedApp ==
    [NoApp EXCEPT !.checkStatus = "approved", !.isLoading = FALSE,
                  !.currentDevice = [id |-> 1, status |-> "approved"]]

\* an UPDATE of the row is announced on the realtime channel, which holds at
\* most MaxEvents messages and loses the ones beyond
announce(dv) ==
    IF Len(dv.events) < MaxEvents
    THEN [dv EXCEPT !.events = Append(@, dv.row)]
    ELSE dv

\* performCheck when neither the select nor the insert fails: the existing
\* row (its last_active is updated) or the row registered as pending
performCheck(dv) ==
    IF dv.row # NullDevice
    THEN [devices |-> announce(dv), device |-> dv.row]
    ELSE LET created == [id |-> dv.nextId, status |-> "pending"]
         IN [devices |-> [dv EXCEPT !.row = created, !.nextId = @ + 1],
             device |-> created]

\* the backoff of a mutant that waits 1s after every failure
backoff_Constant(i) == 1000

\* the backoff after failed attempt i (counted from 0), in milliseconds
backoff(i) == 1000 * (i + 1)

\* registerOrCheckDevice, attempt i has thrown: null after the third failure,
\* else the backoff timer is set
attemptFailed(call) ==
    IF call.i = 2
    THEN [call EXCEPT !.pc = "null", !.i = 3]
    ELSE [call EXCEPT !.pc = "wait", !.i = @ + 1, !.waits = Append(@, backoff(call.i))]

\* initApp from the return of registerOrCheckDevice to its next await
initApp(a, device) ==
    LET a1 == [a EXCEPT !.currentDevice = device]
    IN IF device # NullDevice
       THEN IF device.status = "approved"
            THEN [a1 EXCEPT !.checkStatus = "approved", !.calls["initApp"].pc = "sync"]
            ELSE IF device.status = "blocked"
            THEN [a1 EXCEPT !.checkStatus = "blocked", !.isLoading = FALSE]
            ELSE [a1 EXCEPT !.checkStatus = "pending", !.isLoading = FALSE]
       ELSE [a1 EXCEPT !.checkStatus = "error", !.isLoading = FALSE]

\* initApp after syncWithSupabase
initAppSynced(a) == [a EXCEPT !.isLoading = FALSE]

\* isMounted of the polling effect: the effect is set up when checkStatus
\* becomes 'pending' and cleaned up when checkStatus changes
isMounted(a) == a.checkStatus = "pending"

\* checkApprovalLoop from the return of registerOrCheckDevice to its next await
checkApprovalLoop(a, device) ==
    IF ~isMounted(a) THEN a
    ELSE IF device # NullDevice
    THEN LET a1 == [a EXCEPT !.currentDevice = device]
         IN IF device.status = "approved"
            THEN [a1 EXCEPT !.calls["checkApprovalLoop"].pc = "sync"]
            ELSE IF device.status = "blocked"
            THEN [a1 EXCEPT !.checkStatus = "blocked"]
            ELSE a1
    ELSE a

\* checkApprovalLoop after syncWithSupabase
checkApprovalLoopSynced(a) ==
    IF ~isMounted(a) THEN a
    ELSE [a EXCEPT !.justApproved = TRUE, !.checkStatus = "approved"]

\* handleManualCheck from the return of registerOrCheckDevice to its next await
handleManualCheck(a, device) ==
    IF device # NullDevice
    THEN LET a1 == [a EXCEPT !.currentDevice = device]
         IN IF device.status = "approved"
            THEN [a1 EXCEPT !.calls["handleManualCheck"].pc = "sync"]
            ELSE IF device.status = "blocked"
            THEN [a1 EXCEPT !.checkStatus = "blocked", !.isLoading = FALSE]
            ELSE [a1 EXCEPT !.isLoading = FALSE]
    ELSE [a EXCEPT !.isLoading = FALSE]

\* handleManualCheck after syncWithSupabase
handleManualCheckSynced(a) ==
    [a EXCEPT !.justApproved = TRUE, !.checkStatus = "approved", !.isLoading = FALSE]

\* the heartbeat callback after registerOrCheckDevice has returned
heartbeat(a, device) ==
    IF device # NullDevice /\ device.status = "blocked"
    THEN [a EXCEPT !.checkStatus = "blocked", !.justApproved = FALSE]
    ELSE a

\* the caller's continuation with the device registerOrCheckDevice returned
resumed(a, c, device) ==
    LET a0 == [a EXCEPT !.calls[c] = NotCalling]
    IN CASE c = "initApp" -> initApp(a0, device)
         [] c = "checkApprovalLoop" -> checkApprovalLoop(a0, device)
         [] c = "handleManualCheck" -> handleManualCheck(a0, device)
         [] c = "heartbeat" -> heartbeat(a0, device)

\* the caller's continuation after the syncWithSupabase it awaited
synced(a, c) ==
    LET a0 == [a EXCEPT !.calls[c] = NotCalling]
    IN CASE c = "initApp" -> initAppSynced(a0)
         [] c = "checkApprovalLoop" -> checkApprovalLoopSynced(a0)
         [] c = "handleManualCheck" -> handleManualCheckSynced(a0)
         [] c = "heartbeat" -> a0

\* the realtime channel of the pending screen is subscribed
subscribed(a) == a.checkStatus = "pending" /\ a.currentDevice # NullDevice

\* the realtime callback up to its await: an 'approved' payload starts a sync
realtimeUpdate(a, payload) ==
    IF payload.id # a.currentDevice.id THEN a
    ELSE IF payload.status = "approved" THEN [a EXCEPT !.realtime = @ + 1]
    ELSE IF payload.status = "blocked" THEN [a EXCEPT !.checkStatus = "blocked"]
    ELSE a

\* the realtime callback after syncWithSupabase
realtimeSynced(a) ==
    [a EXCEPT !.realtime = @ - 1, !.justApproved = TRUE, !.checkStatus = "approved"]

\* the render of App: which screen is shown
screen(a) ==
    IF a.checkStatus = "error" THEN "error"
    ELSE IF a.checkStatus = "blocked" THEN "blocked"
    ELSE IF a.checkStatus = "pending" THEN "pending"
    ELSE IF a.isLoading THEN "loading"
    ELSE IF a.justApproved THEN "success"
    ELSE "main"

(***************************************************************************)
(* LiveSell (unnamed/part_003)                                             *)
(***************************************************************************)
Max(a, b) == IF a >= b THEN a ELSE b
Min(a, b) == IF a <= b THEN a ELSE b

\* txAmountPaid === '' ; a typed amount n is <<n>>
NoAmount == <<>>

\* LiveSell.transactionNo: the reference number input, left empty
transactionNo == ""

\* what LiveSell reads of a row of its allCustomers snapshot
Snapshot(cs) == [u \in DOMAIN cs |-> [isBlacklisted |-> cs[u].isBlacklisted,
                                      vipTickets |-> cs[u].vipTickets]]

isRestricted == username \in DOMAIN allCustomers /\ allCustomers[username].isBlacklisted

cartTotal == SumCartTotal(cart)

\* calculatedDiscount with a percentage taken as an amount
calculatedDiscount_PercentAsAmount ==
    IF ~useVipTicket THEN 0
    ELSE IF vipDiscountType = "NONE" THEN 0
    ELSE Min(vipDiscount, cartTotal)

\* Amounts are whole numbers.  A quotient the code takes in floating point is
\* taken with \div, and the behaviours keep to the inputs for which it is whole
\* (checkoutWhole, updateWhole), where both give the same number.
calculatedDiscount ==
    IF ~useVipTicket THEN 0
    ELSE IF vipDiscountType = "NONE" THEN 0
    ELSE IF vipDiscountType = "FIXED" THEN Min(vipDiscount, cartTotal)
    ELSE IF vipDiscountType = "PERCENTAGE" THEN (cartTotal * Min(vipDiscount, 100)) \div 100
    ELSE 0

finalTotal == Max(0, cartTotal - calculatedDiscount)

\* inCartCount with the items of the cart left out of the count
inCartCount_IgnoresCart(baleId) == 0

\* cart.filter(item => item.baleId === baleId).reduce((sum, item) => sum + item.quantity, 0)
inCartCount(baleId) ==
    LET InCart(item) == item.baleId = baleId
    IN SumQuantity(SelectSeq(cart, InCart))

getBaleStats(baleId) ==
    IF baleId \notin DOMAIN bales
    THEN [remaining |-> 0, total |-> 0, sold |-> 0, revenue |-> 0]
    ELSE LET bale == bales[baleId]
             baleProductIds == {p \in DOMAIN products : products[p].baleBatch = baleId}
             InBale(o) == o.productId \in baleProductIds /\ o.shippingStatus # "Cancelled"
             baleOrders == FilterOrders(orders, InBale)
             soldInDb == SumQuantity(baleOrders)
             revenueInDb == SumTotalPrice(baleOrders)
             InCart(item) == item.baleId = baleId
             inCartRevenue == SumCartTotal(SelectSeq(cart, InCart))
             totalSoldActual == soldInDb + inCartCount(baleId)
             totalRevenueActual == revenueInDb + inCartRevenue
         IN [remaining |-> Max(0, bale.itemCount - totalSoldActual),
             total |-> bale.itemCount,
             sold |-> totalSoldActual,
             revenue |-> totalRevenueActual]

\* cart.findIndex(price, isFreebie, baleId) (0 = not found)
RECURSIVE FindLineFrom(_, _, _, _, _)
FindLineFrom(c, price, isFreebie, baleId, i) ==
    IF i > Len(c) THEN 0
    ELSE IF c[i].price = price /\ c[i].isFreebie = isFreebie /\ c[i].baleId = baleId THEN i
    ELSE FindLineFrom(c, price, isFreebie, baleId, i + 1)

RemoveAt(s, i) == SubSeq(s, 1, i - 1) \o SubSeq(s, i + 1, Len(s))

\* addToCart with the search for a matching line left out
addToCart_NeverMerges(inputPrice, isFreebie) ==
    LET same == [cart |-> cart, oosModalData |-> oosModalData, feedback |-> feedback]
    IN IF isRestricted \/ selectedBaleId = NoBale
          \/ getBaleStats(selectedBaleId).remaining <= 0
       THEN same
       ELSE [same EXCEPT !.cart =
                <<[price |-> IF isFreebie THEN 0 ELSE inputPrice, quantity |-> 1,
                   isFreebie |-> isFreebie, baleId |-> selectedBaleId]>> \o cart]

\* the LiveSell state addToCart leaves behind
addToCart(inputPrice, isFreebie) ==
    LET same == [cart |-> cart, oosModalData |-> oosModalData, feedback |-> feedback]
    IN IF isRestricted THEN [same EXCEPT !.feedback = "Action Blocked"]
       ELSE IF selectedBaleId = NoBale THEN [same EXCEPT !.feedback = "Select Batch First"]
       ELSE LET stats == getBaleStats(selectedBaleId)
            IN IF stats.remaining <= 0
               THEN [same EXCEPT !.oosModalData =
                        [name |-> IF selectedBaleId \in DOMAIN bales
                                  THEN bales[selectedBaleId].name ELSE "",
                         total |-> stats.total, sold |-> stats.sold]]
               ELSE LET price == IF isFreebie THEN 0 ELSE inputPrice
                        idx == FindLineFrom(cart, price, isFreebie, selectedBaleId, 1)
                    IN IF idx > 0
                       THEN [same EXCEPT !.cart =
                                <<[cart[idx] EXCEPT !.quantity = @ + 1]>> \o RemoveAt(cart, idx)]
                       ELSE [same EXCEPT !.cart =
                                <<[price |-> price, quantity |-> 1, isFreebie |-> isFreebie,
                                   baleId |-> selectedBaleId]>> \o cart]

\* the unit price of a cart line after the discount: item.price * (1 - discountRatio)
\* with discountRatio = (useVipTicket && cartTotal > 0) ? discount / cartTotal : 0
lineDiscounted(item, vip, discount) ==
    vip /\ discount > 0 /\ ~item.isFreebie /\ cartTotal > 0

finalItemPriceOf(item, vip, discount) ==
    IF lineDiscounted(item, vip, discount)
    THEN (item.price * (cartTotal - discount)) \div cartTotal
    ELSE item.price

\* itemAmountPaidOf with the whole tendered amount booked on every line
itemAmountPaidOf_WholeTender(isFreebie, finalItemTotal, total, isGlobalPaid, globalPaidInput) ==
    IF isFreebie \/ ~isGlobalPaid \/ total <= 0 THEN 0 ELSE globalPaidInput

\* the amount paid handleCheckout books on a line:
\* (finalItemTotal / finalTotal) * globalPaidInput
itemAmountPaidOf(isFreebie, finalItemTotal, total, isGlobalPaid, globalPaidInput) ==
    IF isFreebie \/ ~isGlobalPaid \/ total <= 0 THEN 0
    ELSE (finalItemTotal * globalPaidInput) \div total

\* the LiveSell states in which every quotient handleCheckout takes is whole
checkoutWhole ==
    LET globalPaidInput == IF txAmountPaid = NoAmount THEN 0 ELSE txAmountPaid[1]
    IN /\ (useVipTicket /\ vipDiscountType = "PERCENTAGE")
              => (cartTotal * Min(vipDiscount, 100)) % 100 = 0
       /\ \A i \in 1..Len(cart) :
              /\ lineDiscounted(cart[i], useVipTicket, calculatedDiscount)
                     => (cart[i].price * (cartTotal - calculatedDiscount)) % cartTotal = 0
              /\ (~cart[i].isFreebie /\ txPaymentMethod # "" /\ finalTotal > 0)
                     => (finalItemPriceOf(cart[i], useVipTicket, calculatedDiscount)
                           * cart[i].quantity * globalPaidInput) % finalTotal = 0

\* one iteration of the cart.forEach of handleCheckout: the store after
\* db.updateProduct(prod) and db.addOrder({...}) for the cart line item
checkoutLine(d, item, idx, timestamp, user, vip, discount, total, isGlobalPaid, globalPaidInput) ==
    LET finalItemPrice == finalItemPriceOf(item, vip, discount)
        finalItemTotal == finalItemPrice * item.quantity
        itemAmountPaid == itemAmountPaidOf(item.isFreebie, finalItemTotal, total,
                                           isGlobalPaid, globalPaidInput)
        \* for whole amounts itemAmountPaid >= finalItemTotal - 0.01 is
        \* itemAmountPaid >= finalItemTotal
        itemPaymentStatus == IF item.isFreebie THEN PAID
                             ELSE IF ~isGlobalPaid THEN UNPAID
                             ELSE IF itemAmountPaid >= finalItemTotal THEN PAID
                             ELSE IF itemAmountPaid > 0 THEN PARTIAL
                             ELSE UNPAID
        deterministicProdId == <<item.baleId, item.price, item.isFreebie>>
        prod == [baleBatch |-> item.baleId, sellingPrice |-> finalItemPrice, stock |-> 0]
        d1 == updateProduct(d, deterministicProdId, prod)
    IN addOrder(d1, [id |-> <<timestamp, idx>>,
                     sessionId |-> SessionId,
                     customerUsername |-> user,
                     productId |-> deterministicProdId,
                     quantity |-> item.quantity,
                     totalPrice |-> finalItemTotal,
                     isFreebie |-> item.isFreebie,
                     paymentStatus |-> itemPaymentStatus,
                     shippingStatus |-> PENDING,
                     amountPaid |-> itemAmountPaid,
                     paymentMethod |-> IF txPaymentMethod = "" THEN Undefined
                                       ELSE txPaymentMethod,
                     referenceNumber |-> IF transactionNo = "" THEN Undefined
                                         ELSE transactionNo,
                     usedVipTicket |-> vip,
                     logs |-> <<>>])

RECURSIVE checkoutLines(_, _, _, _, _, _, _, _, _, _)
checkoutLines(d, items, idx, timestamp, user, vip, discount, total, isGlobalPaid, globalPaidInput) ==
    IF idx >= Len(items) THEN d
    ELSE checkoutLines(
            checkoutLine(d, items[idx + 1], idx, timestamp, user, vip, discount, total,
                         isGlobalPaid, globalPaidInput),
            items, idx + 1, timestamp, user, vip, discount, total, isGlobalPaid, globalPaidInput)

\* checkoutRejects with the blacklist test left out
checkoutRejects_Never(customer) == FALSE

\* if (customer.isBlacklisted) { ... return; }
checkoutRejects(customer) == customer.isBlacklisted

\* the store and LiveSell state handleCheckout leaves behind
handleCheckout ==
    LET same == [db |-> DB, cart |-> cart, username |-> username,
                 useVipTicket |-> useVipTicket, allCustomers |-> allCustomers,
                 vipDiscountType |-> vipDiscountType, vipDiscount |-> vipDiscount,
                 txPaymentMethod |-> txPaymentMethod, txAmountPaid |-> txAmountPaid,
                 feedback |-> feedback, clock |-> clock]
    IN IF username = NoUser THEN same
       ELSE LET d0 == getOrCreateCustomer(DB, username)
                customer == d0.customers[username]
            IN IF checkoutRejects(customer)
               THEN [same EXCEPT !.db = d0, !.feedback = "Customer Blacklisted"]
               ELSE IF useVipTicket /\ vipDiscountType = "FIXED" /\ vipDiscount > cartTotal
               THEN [same EXCEPT !.db = d0]
               ELSE IF useVipTicket /\ ~(customer.vipTickets > 0)
               THEN [same EXCEPT !.db = d0, !.useVipTicket = FALSE]
               ELSE LET d1 == IF useVipTicket
                              THEN updateCustomer(d0, username,
                                       [customer EXCEPT !.vipTickets = @ - 1])
                              ELSE d0
                        totalDiscountAmount == calculatedDiscount
                        globalPaidInput == IF txAmountPaid = NoAmount THEN 0
                                           ELSE txAmountPaid[1]
                        isGlobalPaid == txPaymentMethod # ""
                        d2 == checkoutLines(d1, cart, 0, clock, username, useVipTicket,
                                            totalDiscountAmount, finalTotal,
                                            isGlobalPaid, globalPaidInput)
                    IN [db |-> d2, cart |-> <<>>, username |-> NoUser,
                        useVipTicket |-> FALSE,
                        allCustomers |-> IF useVipTicket THEN Snapshot(d1.customers)
                                         ELSE allCustomers,
                        vipDiscountType |-> "NONE", vipDiscount |-> 0,
                        txPaymentMethod |-> "", txAmountPaid |-> NoAmount,
                        feedback |-> "Recorded", clock |-> clock + 1]

\* db.getOrders().filter(o => o.sessionId === sessionId && o.customerUsername === user)
SessionOrdersOf(d, user) ==
    LET Mine(o) == o.sessionId = SessionId /\ o.customerUsername = user
    IN FilterOrders(d.orders, Mine)

\* deleteOrders with only the first order deleted
deleteOrders_OnlyFirst(d, os) ==
    IF os = <<>> THEN d ELSE deleteOrder(d, Head(os).id)

RECURSIVE deleteOrders(_, _)
deleteOrders(d, os) ==
    IF os = <<>> THEN d ELSE deleteOrders(deleteOrder(d, Head(os).id), Tail(os))

AnyUsedVipTicket(os) == \E i \in 1..Len(os) : os[i].usedVipTicket

\* cust = getOrCreateCustomer(u); cust.vipTickets += 1; updateCustomer(cust)
returnTicket(d, u) ==
    LET d1 == getOrCreateCustomer(d, u)
    IN updateCustomer(d1, u, [d1.customers[u] EXCEPT !.vipTickets = @ + 1])

\* the store and LiveSell state handleEditCustomer leaves behind; confirmed
\* is the answer to the confirm() dialog, asked only when the cart holds
\* another customer's unsaved items
handleEditCustomer(targetUsername, confirmed) ==
    LET same == [db |-> DB, cart |-> cart, username |-> username,
                 useVipTicket |-> useVipTicket, allCustomers |-> allCustomers,
                 vipDiscountType |-> vipDiscountType, vipDiscount |-> vipDiscount,
                 txPaymentMethod |-> txPaymentMethod, txAmountPaid |-> txAmountPaid,
                 feedback |-> feedback]
        sessionOrders == SessionOrdersOf(DB, targetUsername)
    IN IF Len(sessionOrders) = 0 THEN same
       ELSE IF Len(cart) > 0 /\ username # targetUsername /\ ~confirmed THEN same
       ELSE LET ticketUsed == AnyUsedVipTicket(sessionOrders)
                newCartItems ==
                    [i \in 1..Len(sessionOrders) |->
                        LET order == sessionOrders[i]
                        IN [price |-> IF order.quantity > 0
                                      THEN order.totalPrice \div order.quantity ELSE 0,
                            quantity |-> order.quantity,
                            isFreebie |-> order.isFreebie,
                            baleId |-> IF order.productId \in DOMAIN products
                                       THEN products[order.productId].baleBatch ELSE NoBale]]
                d1 == deleteOrders(DB, sessionOrders)
                d2 == IF ticketUsed THEN returnTicket(d1, targetUsername) ELSE d1
            IN [db |-> d2, cart |-> newCartItems, username |-> targetUsername,
                useVipTicket |-> ticketUsed,
                allCustomers |-> IF ticketUsed THEN Snapshot(d2.customers) ELSE allCustomers,
                vipDiscountType |-> "NONE", vipDiscount |-> 0,
                txPaymentMethod |-> "", txAmountPaid |-> NoAmount,
                feedback |-> "Editing"]

\* handleManualDelete with the usedVipTicket test on the ticket return left out
handleManualDelete_AlwaysReturns(d, deleteTargetUser) ==
    returnTicket(deleteOrders(d, SessionOrdersOf(d, deleteTargetUser)), deleteTargetUser)

\* SessionOrdersModal.handleManualDelete: the store it leaves behind
handleManualDelete(d, deleteTargetUser) ==
    LET userOrders == SessionOrdersOf(d, deleteTargetUser)
        d1 == deleteOrders(d, userOrders)
    IN IF AnyUsedVipTicket(userOrders) THEN returnTicket(d1, deleteTargetUser) ELSE d1

\* EditTransactionModal.handleDeleteItem: the store it leaves behind
handleDeleteItem(d, orderId) == deleteOrder(d, orderId)


(***************************************************************************)
(* Orders view (views/Orders.tsx, second Orders component)                 *)
(***************************************************************************)
RECURSIVE SumAmountPaid(_)
SumAmountPaid(s) == IF s = <<>> THEN 0 ELSE Head(s).amountPaid + SumAmountPaid(Tail(s))

\* the GroupedOrder filteredOrders builds for a customer of the session:
\* the first order's fields, with quantity, totalPrice and amountPaid summed
GroupOf(d, user) ==
    LET items == SessionOrdersOf(d, user)
    IN [customerUsername |-> user,
        paymentStatus |-> items[1].paymentStatus,
        shippingStatus |-> items[1].shippingStatus,
        paymentMethod |-> items[1].paymentMethod,
        referenceNumber |-> items[1].referenceNumber,
        quantity |-> SumQuantity(items),
        totalPrice |-> SumTotalPrice(items),
        amountPaid |-> SumAmountPaid(items),
        ids |-> [i \in 1..Len(items) |-> items[i].id],
        items |-> items]

GroupedUsers(d) ==
    {d.orders[i].customerUsername : i \in {j \in 1..Len(d.orders) :
                                               d.orders[j].sessionId = SessionId}}

\* A text is the sequence of its tokens: the separators the log decoder looks
\* for ("[", "] ", ", ", ": ", " -> ") and the pieces of text between them.
\* Tokens(v) is the text of the string v; the reference number that holds a
\* separator is the one listed.
Tokens(v) ==
    CASE v = "" -> <<>>
      [] v = "R1 -> R2" -> <<"R1", " -> ", "R2">>
      [] OTHER -> <<v>>

\* `${n}` of a number
NumberText(n) == <<ToString(n)>>

\* newLog === undefined
NoLog == <<>>

\* new Date().toLocaleDateString() + " " + new Date().toLocaleTimeString(...)
dateStr == ToString(clock)

RECURSIVE JoinTok(_, _)
JoinTok(parts, sep) ==
    IF parts = <<>> THEN <<>>
    ELSE IF Len(parts) = 1 THEN parts[1]
    ELSE parts[1] \o <<sep>> \o JoinTok(Tail(parts), sep)

\* amounts for which original.totalPrice * (amountPaid / totalGroupPrice) is whole
updateWhole(updated) ==
    LET totalGroupPrice == SumTotalPrice(updated.items)
    IN (updated.paymentStatus = PARTIAL /\ totalGroupPrice > 0)
       => \A i \in 1..Len(updated.items) :
             (updated.items[i].totalPrice * updated.amountPaid) % totalGroupPrice = 0

\* handleUpdateId with the amount of the group booked on every order of a
\* Partial group
handleUpdateId_GroupAmount(d, updated, newLog, id) ==
    LET index == FindOrder(d.orders, id)
    IN IF index = 0 THEN d
       ELSE LET original == d.orders[index]
                newItemPaidAmount ==
                    IF updated.paymentStatus = PAID THEN original.totalPrice
                    ELSE IF updated.paymentStatus = UNPAID THEN 0
                    ELSE updated.amountPaid
                updatedLogs == IF newLog # NoLog THEN Append(original.logs, newLog)
                               ELSE original.logs
            IN updateOrder(d, [original EXCEPT !.paymentStatus = updated.paymentStatus,
                                               !.shippingStatus = updated.shippingStatus,
                                               !.paymentMethod = updated.paymentMethod,
                                               !.referenceNumber = updated.referenceNumber,
                                               !.amountPaid = newItemPaidAmount,
                                               !.logs = updatedLogs])

\* the body of updated.ids.forEach in handleUpdate for one id
handleUpdateId(d, updated, newLog, id) ==
    LET index == FindOrder(d.orders, id)
    IN IF index = 0 THEN d
       ELSE LET original == d.orders[index]
                totalGroupPrice == SumTotalPrice(updated.items)
                newItemPaidAmount ==
                    IF updated.paymentStatus = PAID THEN original.totalPrice
                    ELSE IF updated.paymentStatus = UNPAID THEN 0
                    ELSE IF totalGroupPrice > 0
                         THEN (original.totalPrice * updated.amountPaid) \div totalGroupPrice
                         ELSE 0
                updatedLogs == IF newLog # NoLog THEN Append(original.logs, newLog)
                               ELSE original.logs
            IN updateOrder(d, [original EXCEPT !.paymentStatus = updated.paymentStatus,
                                               !.shippingStatus = updated.shippingStatus,
                                               !.paymentMethod = updated.paymentMethod,
                                               !.referenceNumber = updated.referenceNumber,
                                               !.amountPaid = newItemPaidAmount,
                                               !.logs = updatedLogs])

RECURSIVE handleUpdateFrom(_, _, _, _)
handleUpdateFrom(d, updated, newLog, i) ==
    IF i > Len(updated.ids) THEN d
    ELSE handleUpdateFrom(handleUpdateId(d, updated, newLog, updated.ids[i]),
                          updated, newLog, i + 1)

handleUpdate(d, updated, newLog) == handleUpdateFrom(d, updated, newLog, 1)

\* the log line OrderRow.commitChange writes
commitChangeLog(order, field, value) ==
    <<"[", dateStr, "] ", field, ": ">> \o Tokens(order[field]) \o <<" -> ">> \o Tokens(value)

\* the payload OrderRow.commitChange hands to onUpdate.  localData holds the
\* fields of the order the row shows.
commitPayload(order, field, value) ==
    LET localData == [order EXCEPT
                         !.paymentMethod = IF @ = Undefined THEN "" ELSE @,
                         !.referenceNumber = IF @ = Undefined THEN "" ELSE @]
        newData == [localData EXCEPT ![field] = value]
        auto == IF field = "paymentStatus" /\ value = PAID
                THEN [newData EXCEPT !.amountPaid = order.totalPrice]
                ELSE IF field = "paymentStatus" /\ value = UNPAID
                THEN [newData EXCEPT !.amountPaid = 0]
                ELSE newData
    IN [auto EXCEPT !.paymentMethod = IF @ = "" THEN Undefined ELSE @]

\* OrderRow.commitChange followed by the onUpdate it calls: the store left
\* behind
commitChange(d, order, field, value) ==
    IF order[field] = value THEN d
    ELSE handleUpdate(d, commitPayload(order, field, value),
                      commitChangeLog(order, field, value))

RECURSIVE deleteIdsFrom(_, _, _)
deleteIdsFrom(d, ids, i) ==
    IF i > Len(ids) THEN d ELSE deleteIdsFrom(deleteOrder(d, ids[i]), ids, i + 1)

\* Orders.handleDelete: the store it leaves behind
handleDelete(d, deleteTarget) == deleteIdsFrom(d, deleteTarget.ids, 1)

\* the values the selects and the reference input of an OrderRow offer
FieldValues(field) ==
    IF field = "paymentStatus" THEN {UNPAID, PAID}
    ELSE IF field = "shippingStatus" THEN {PENDING, SHIPPED, RTS, CANCELLED}
    ELSE IF field = "paymentMethod" THEN {"", "GCash"}
    ELSE {"", "R1"}

\* StatusModal: the form state it opens with on the group order
formDataOf(order) ==
    [order EXCEPT !.paymentMethod = IF @ = Undefined \/ @ = "" THEN GCASH ELSE @,
                  !.referenceNumber = IF @ = Undefined THEN "" ELSE @]

handleAmountChange(order, formData, newAmount) ==
    [formData EXCEPT !.amountPaid = newAmount,
                     !.paymentStatus = IF newAmount <= 0 THEN UNPAID
                                       ELSE IF newAmount >= order.totalPrice THEN PAID
                                       ELSE PARTIAL]

handleStatusChange(order, formData, newStatus) ==
    [formData EXCEPT !.paymentStatus = newStatus,
                     !.amountPaid = IF newStatus = PAID THEN order.totalPrice
                                    ELSE IF newStatus = UNPAID THEN 0
                                    ELSE @]

\* the peso sign before an amount
Peso == "P"

\* the changes handleSaveClick lists, each one a text
saveChanges(order, formData) ==
    (IF formData.paymentStatus # order.paymentStatus
     THEN <<(<<"Status", ": ">> \o Tokens(order.paymentStatus) \o <<" -> ">>
             \o Tokens(formData.paymentStatus))>>
     ELSE <<>>)
    \o (IF formData.amountPaid # order.amountPaid
        THEN <<(<<"Paid", ": ", Peso>> \o NumberText(order.amountPaid) \o <<" -> ", Peso>>
                \o NumberText(formData.amountPaid))>>
        ELSE <<>>)
    \o (IF formData.shippingStatus # order.shippingStatus
        THEN <<(<<"Shipping", ": ">> \o Tokens(order.shippingStatus) \o <<" -> ">>
                \o Tokens(formData.shippingStatus))>>
        ELSE <<>>)
    \o (IF formData.referenceNumber # order.referenceNumber
        THEN <<(<<"Ref", ": ">>
                \o Tokens(IF order.referenceNumber \in {Undefined, ""} THEN "None"
                          ELSE order.referenceNumber)
                \o <<" -> ">> \o Tokens(formData.referenceNumber))>>
        ELSE <<>>)

\* logString of handleSaveClick
saveLog(order, formData) ==
    LET changes == saveChanges(order, formData)
    IN IF Len(changes) > 0 THEN <<"[", dateStr, "] ">> \o JoinTok(changes, ", ")
       ELSE NoLog

\* StatusModal.handleSaveClick followed by the onSave it calls
handleSaveClick(d, order, formData) == handleUpdate(d, formData, saveLog(order, formData))

\* the first index from i on at which the text s holds the token t (0 = none)
RECURSIVE IndexOfFrom(_, _, _)
IndexOfFrom(s, t, i) ==
    IF i > Len(s) THEN 0
    ELSE IF s[i] = t THEN i
    ELSE IndexOfFrom(s, t, i + 1)

\* the labels the decoder splits at
Labels == {"Status", "Paid", "Shipping", "Ref"}

\* log.match(/^\[(.*?)\] (.*)$/): the place of the "] " that ends the
\* timestamp (0 = no match)
LogMatch(log) ==
    IF Len(log) >= 1 /\ log[1] = "[" THEN IndexOfFrom(log, "] ", 2) ELSE 0

\* content.split(/, (?=(?:Status|Paid|Shipping|Ref):)/)
RECURSIVE splitChanges(_, _, _)
splitChanges(content, i, current) ==
    IF i > Len(content) THEN <<current>>
    ELSE IF /\ content[i] = ", "
            /\ i + 2 <= Len(content)
            /\ content[i + 1] \in Labels
            /\ content[i + 2] = ": "
         THEN <<current>> \o splitChanges(content, i + 1, <<>>)
         ELSE splitChanges(content, i + 1, Append(current, content[i]))

\* {oldVal || 'None'}
Shown(text) == IF text = <<>> THEN <<"None">> ELSE text

\* ChangeRow: the label and the two values it shows; a change without ': ' is
\* shown as plain text, without a label
ChangeRow(change) ==
    LET k == IndexOfFrom(change, ": ", 1)
    IN IF k = 0 THEN [label |-> <<>>, oldVal |-> change, newVal |-> <<>>]
       ELSE LET values == SubSeq(change, k + 1, Len(change))
                a == IndexOfFrom(values, " -> ", 1)
                b == IF a = 0 THEN 0 ELSE IndexOfFrom(values, " -> ", a + 1)
                oldVal == IF a = 0 THEN values ELSE SubSeq(values, 1, a - 1)
                newVal == IF a = 0 THEN <<>>
                          ELSE SubSeq(values, a + 1, IF b = 0 THEN Len(values) ELSE b - 1)
            IN [label |-> SubSeq(change, 1, k - 1),
                oldVal |-> Shown(oldVal), newVal |-> Shown(newVal)]

\* LogItem: the change rows it shows for a log line; a line that does not
\* match is shown as plain text
LogItem(log) ==
    LET k == LogMatch(log)
    IN IF k = 0 THEN <<[label |-> <<>>, oldVal |-> log, newVal |-> <<>>]>>
       ELSE LET changes == splitChanges(SubSeq(log, k + 1, Len(log)), 1, <<>>)
            IN [i \in 1..Len(changes) |-> ChangeRow(changes[i])]

(***************************************************************************)
(* Bales view (views/Dashboard.tsx, Bales component)                       *)
(***************************************************************************)
\* Bales.handleSaveBale for an edit of the status and item count of a bale
handleSaveBale(d, b, status, itemCount) ==
    updateBale(d, b, [d.bales[b] EXCEPT !.status = status, !.itemCount = itemCount])

\* Bales.getBaleStats(baleId), without the figures derived from bale.cost
BalesGetBaleStats(d, baleId) ==
    IF baleId \notin DOMAIN d.bales
    THEN [soldCount |-> 0, revenue |-> 0, freebiesCount |-> 0]
    ELSE LET baleProductIds == {p \in DOMAIN d.products : d.products[p].baleBatch = baleId}
             InBale(o) == o.productId \in baleProductIds
             Freebie(o) == o.isFreebie
             baleOrders == FilterOrders(d.orders, InBale)
         IN [soldCount |-> SumQuantity(baleOrders),
             revenue |-> SumTotalPrice(baleOrders),
             freebiesCount |-> SumQuantity(FilterOrders(baleOrders, Freebie))]

(***************************************************************************)
(* Inventory view (views/Inventory.tsx)                                    *)
(***************************************************************************)

\* Inventory.getBaleStats(baleId, cost), without isProfitable
InventoryGetBaleStats(d, baleId) ==
    LET baleProductIds == {p \in DOMAIN d.products : d.products[p].baleBatch = baleId}
        InBale(o) == o.productId \in baleProductIds
        baleOrders == FilterOrders(d.orders, InBale)
    IN [soldCount |-> SumQuantity(baleOrders), revenue |-> SumTotalPrice(baleOrders)]

(***************************************************************************)
(* State machine of the application: LiveSell, Orders view and Bales view  *)
(* over a store seeded with one bale and two customers.                    *)
(***************************************************************************)
NoCall == [op |-> "none", refreshed |-> NoBale]

\* the seeded store LiveSell starts on: the bale that is on sale
LiveBales == [b \in {"B001"} |-> InitialBales[b]]

Init ==
    /\ products = <<>>
    /\ orders = <<>>
    /\ customers = InitialCustomers
    /\ bales = LiveBales
    /\ view = "livesell"
    /\ username = NoUser
    /\ selectedBaleId = NoBale
    /\ cart = <<>>
    /\ useVipTicket = FALSE
    /\ allCustomers = Snapshot(InitialCustomers)
    /\ oosModalData = NoData
    /\ vipDiscountType = "NONE"
    /\ vipDiscount = 0
    /\ txPaymentMethod = ""
    /\ txAmountPaid = NoAmount
    /\ feedback = NoFeedback
    /\ clock = 0
    /\ lastCall = NoCall
    /\ supabase = Synced(DB)
    /\ devices = ApprovedDevices
    /\ app = ApprovedApp

SetDB(d) ==
    /\ products' = d.products
    /\ orders' = d.orders
    /\ customers' = d.customers
    /\ bales' = d.bales

KeepDB == UNCHANGED <<products, orders, customers, bales>>

\* the discount and payment inputs stay as they are.  While no payment method
\* is selected the auto-fill effect of txAmountPaid leaves '' in place.
KeepPay == UNCHANGED <<vipDiscountType, vipDiscount, txPaymentMethod, txAmountPaid>>

\* useEffect on [txPaymentMethod, finalTotal], run after the handler that set
\* txAmountPaid to current: a change of either fills in the amount to pay
AutoFillAmountPaid(current) ==
    txAmountPaid' =
        IF finalTotal' # finalTotal \/ txPaymentMethod' # txPaymentMethod
        THEN IF txPaymentMethod' # "" THEN <<finalTotal'>> ELSE NoAmount
        ELSE current

StockCapped(d) == \A p \in DOMAIN d.products : d.products[p].stock <= MaxStock

LogsCapped(d) == \A i \in 1..Len(d.orders) : Len(d.orders[i].logs) <= MaxLogs

\* The out-of-stock modal is an overlay that covers the view until it is
\* closed.  The feedback banner is written by the handlers and read by none of
\* them, so its timeout is taken before the next event.
Idle == oosModalData = NoData /\ feedback = NoFeedback

\* App: switching the tab unmounts the view and mounts another
Navigate ==
    \E v \in Views \ {view} :
        /\ Idle
        /\ view' = v
        /\ allCustomers' = IF v = "livesell" THEN Snapshot(customers) ELSE allCustomers
        /\ oosModalData' = NoData
        /\ feedback' = NoFeedback
        /\ KeepDB
        /\ KeepPay
        /\ UNCHANGED <<username, selectedBaleId, cart, useVipTicket, clock, lastCall, supabase, devices, app>>

SetUsername ==
    \E u \in Usernames :
        /\ view = "livesell"
        /\ Idle
        /\ username' = u
        /\ KeepDB
        /\ KeepPay
        /\ UNCHANGED <<view, selectedBaleId, cart, useVipTicket, allCustomers,
                       oosModalData, feedback, clock, lastCall, supabase, devices, app>>

\* the batch grid lists the bales whose status is 'On Sale'
SelectBale ==
    \E b \in DOMAIN bales :
        /\ view = "livesell"
        /\ Idle
        /\ bales[b].status = "On Sale"
        /\ ~isRestricted
        /\ selectedBaleId' = b
        /\ KeepDB
        /\ KeepPay
        /\ UNCHANGED <<view, username, cart, useVipTicket, allCustomers,
                       oosModalData, feedback, clock, lastCall, supabase, devices, app>>

\* the price buttons, rendered for a customer who is not restricted once a
\* batch is selected; freebie orders are driven in StoreSpec
AddToCart ==
    \E inputPrice \in PresetPrices :
        LET r == addToCart(inputPrice, FALSE)
        IN /\ view = "livesell"
           /\ Idle
           /\ ~isRestricted
           /\ selectedBaleId # NoBale
           /\ cart' = r.cart
           /\ oosModalData' = r.oosModalData
           /\ feedback' = r.feedback
           /\ KeepDB
           /\ UNCHANGED <<vipDiscountType, vipDiscount, txPaymentMethod>>
           /\ UNCHANGED <<view, username, selectedBaleId, useVipTicket, allCustomers,
                          clock, lastCall, supabase, devices, app>>
           /\ AutoFillAmountPaid(txAmountPaid)

RemoveCartLine ==
    \E i \in 1..Len(cart) :
        /\ view = "livesell"
        /\ Idle
        /\ cart' = RemoveAt(cart, i)
        /\ KeepDB
        /\ UNCHANGED <<vipDiscountType, vipDiscount, txPaymentMethod>>
        /\ UNCHANGED <<view, username, selectedBaleId, useVipTicket, allCustomers,
                       oosModalData, feedback, clock, lastCall, supabase, devices, app>>
        /\ AutoFillAmountPaid(txAmountPaid)

ConfirmClearCart ==
    /\ view = "livesell"
    /\ Idle
    /\ Len(cart) > 0
    /\ cart' = <<>>
    /\ useVipTicket' = FALSE
    /\ KeepDB
    /\ UNCHANGED <<vipDiscountType, vipDiscount, txPaymentMethod>>
    /\ UNCHANGED <<view, username, selectedBaleId, allCustomers, oosModalData,
                   feedback, clock, lastCall, supabase, devices, app>>
    /\ AutoFillAmountPaid(NoAmount)

\* the toggle is rendered while the current customer of the snapshot has a ticket
ToggleVipTicket ==
    /\ view = "livesell"
    /\ Idle
    /\ username \in DOMAIN allCustomers
    /\ allCustomers[username].vipTickets > 0
    /\ useVipTicket' = ~useVipTicket
    /\ KeepDB
    /\ UNCHANGED <<vipDiscountType, vipDiscount, txPaymentMethod>>
    /\ UNCHANGED <<view, username, selectedBaleId, cart, allCustomers, oosModalData,
                   feedback, clock, lastCall, supabase, devices, app>>
    /\ AutoFillAmountPaid(txAmountPaid)

\* the checkout button: disabled={cart.length === 0 || !username || isRestricted}
HandleCheckout ==
    LET r == handleCheckout
    IN /\ view = "livesell"
       /\ Idle
       /\ Len(cart) > 0
       /\ username # NoUser
       /\ ~isRestricted
       /\ clock < MaxCheckouts
       /\ checkoutWhole
       /\ SetDB(r.db)
       /\ cart' = r.cart
       /\ username' = r.username
       /\ useVipTicket' = r.useVipTicket
       /\ allCustomers' = r.allCustomers
       /\ feedback' = r.feedback
       /\ clock' = r.clock
       /\ vipDiscountType' = r.vipDiscountType
       /\ vipDiscount' = r.vipDiscount
       /\ txPaymentMethod' = r.txPaymentMethod
       /\ txAmountPaid' = r.txAmountPaid
       /\ UNCHANGED <<view, selectedBaleId, oosModalData, lastCall, supabase, devices, app>>

\* the Recent Activity list offers the customers that have orders in the session
HandleEditCustomer ==
    \E targetUsername \in GroupedUsers(DB), confirmed \in BOOLEAN :
        LET r == handleEditCustomer(targetUsername, confirmed)
        IN /\ view = "livesell"
           /\ Idle
           /\ SetDB(r.db)
           /\ cart' = r.cart
           /\ username' = r.username
           /\ useVipTicket' = r.useVipTicket
           /\ allCustomers' = r.allCustomers
           /\ feedback' = r.feedback
           /\ vipDiscountType' = r.vipDiscountType
           /\ vipDiscount' = r.vipDiscount
           /\ txPaymentMethod' = r.txPaymentMethod
           /\ txAmountPaid' = r.txAmountPaid
           /\ UNCHANGED <<view, selectedBaleId, oosModalData, clock, lastCall, supabase, devices, app>>

HandleManualDelete ==
    \E deleteTargetUser \in GroupedUsers(DB) :
        /\ view = "livesell"
        /\ Idle
        /\ SetDB(handleManualDelete(DB, deleteTargetUser))
        /\ KeepPay
        /\ UNCHANGED <<view, username, selectedBaleId, cart, useVipTicket, allCustomers,
                       oosModalData, feedback, clock, lastCall, supabase, devices, app>>

HandleDeleteItem ==
    \E i \in 1..Len(orders) :
        /\ view = "livesell"
        /\ Idle
        /\ orders[i].sessionId = SessionId
        /\ SetDB(handleDeleteItem(DB, orders[i].id))
        /\ KeepPay
        /\ UNCHANGED <<view, username, selectedBaleId, cart, useVipTicket, allCustomers,
                       oosModalData, feedback, clock, lastCall, supabase, devices, app>>

CloseOosModal ==
    /\ view = "livesell"
    /\ oosModalData # NoData
    /\ oosModalData' = NoData
    /\ KeepDB
    /\ KeepPay
    /\ UNCHANGED <<view, username, selectedBaleId, cart, useVipTicket, allCustomers,
                   feedback, clock, lastCall, supabase, devices, app>>

\* setTimeout(() => setFeedback(null), ...)
FeedbackTimeout ==
    /\ view = "livesell"
    /\ feedback # NoFeedback
    /\ feedback' = NoFeedback
    /\ KeepDB
    /\ KeepPay
    /\ UNCHANGED <<view, username, selectedBaleId, cart, useVipTicket, allCustomers,
                   oosModalData, clock, lastCall, supabase, devices, app>>

\* the shipping select of an order row; a payment change is driven in StoreSpec
CommitChange ==
    \E u \in GroupedUsers(DB), value \in FieldValues("shippingStatus") :
        /\ view = "orders"
        /\ Idle
        /\ StockCapped(commitChange(DB, GroupOf(DB, u), "shippingStatus", value))
        /\ LogsCapped(commitChange(DB, GroupOf(DB, u), "shippingStatus", value))
        /\ SetDB(commitChange(DB, GroupOf(DB, u), "shippingStatus", value))
        /\ KeepPay
        /\ UNCHANGED <<view, username, selectedBaleId, cart, useVipTicket, allCustomers,
                       oosModalData, feedback, clock, lastCall, supabase, devices, app>>

HandleDelete ==
    \E u \in GroupedUsers(DB) :
        /\ view = "orders"
        /\ Idle
        /\ SetDB(handleDelete(DB, GroupOf(DB, u)))
        /\ KeepPay
        /\ UNCHANGED <<view, username, selectedBaleId, cart, useVipTicket, allCustomers,
                       oosModalData, feedback, clock, lastCall, supabase, devices, app>>

\* the batch editor of the Bales view, used to change the status
HandleSaveBale ==
    \E b \in DOMAIN bales, status \in BaleStatus :
        /\ view = "bales"
        /\ Idle
        /\ SetDB(handleSaveBale(DB, b, status, bales[b].itemCount))
        /\ KeepPay
        /\ UNCHANGED <<view, username, selectedBaleId, cart, useVipTicket, allCustomers,
                       oosModalData, feedback, clock, lastCall, supabase, devices, app>>

Next ==
    \/ Navigate
    \/ SetUsername
    \/ SelectBale
    \/ AddToCart
    \/ RemoveCartLine
    \/ ConfirmClearCart
    \/ ToggleVipTicket
    \/ HandleCheckout
    \/ HandleEditCustomer
    \/ HandleManualDelete
    \/ HandleDeleteItem
    \/ CloseOosModal
    \/ FeedbackTimeout
    \/ CommitChange
    \/ HandleDelete
    \/ HandleSaveBale

Spec == Init /\ [][Next]_vars

(***************************************************************************)
(* State machine of the LiveSell checkout panel: the username, price,      *)
(* discount and payment inputs and the checkout button, over a store       *)
(* seeded with one bale on sale and the two customers.                     *)
(***************************************************************************)
MaxLiveCheckouts == 1     \* checkouts per behaviour of CheckoutSpec
CheckoutItemCount == 3    \* itemCount of the bale on sale in CheckoutSpec

\* "cat" is a username no stored customer has
CheckoutUsernames == {"ann", "cat"}
\* the numbers typed into the Other Price, discount and Amt Paid inputs
CustomPrices == {200, -100}
DiscountInputs == {20, 150}
AmountInputs == {0, 50, 300}
PaymentMethods == {"", "GCash"}

CheckoutBales == [b \in {"B001"} |-> [InitialBales[b] EXCEPT !.itemCount = CheckoutItemCount]]

InitCheckout ==
    /\ products = <<>>
    /\ orders = <<>>
    /\ customers = InitialCustomers
    /\ bales = CheckoutBales
    /\ view = "livesell"
    /\ username = NoUser
    /\ selectedBaleId = NoBale
    /\ cart = <<>>
    /\ useVipTicket = FALSE
    /\ allCustomers = Snapshot(InitialCustomers)
    /\ oosModalData = NoData
    /\ vipDiscountType = "NONE"
    /\ vipDiscount = 0
    /\ txPaymentMethod = ""
    /\ txAmountPaid = NoAmount
    /\ feedback = NoFeedback
    /\ clock = 0
    /\ lastCall = NoCall
    /\ supabase = Synced(DB)
    /\ devices = ApprovedDevices
    /\ app = ApprovedApp

\* the username input
TypeUsername ==
    \E u \in CheckoutUsernames :
        /\ clock < MaxLiveCheckouts
        /\ Idle
        /\ username' = u
        /\ KeepDB
        /\ KeepPay
        /\ UNCHANGED <<view, selectedBaleId, cart, useVipTicket, allCustomers,
                       oosModalData, feedback, clock, lastCall, supabase, devices, app>>

\* the freebie button addToCart(0, true), a preset price button addToCart(price)
\* and the Other Price input addToCart(Number(customPrice))
PressPrice ==
    \E inputPrice \in PresetPrices \cup CustomPrices \cup {0}, isFreebie \in BOOLEAN :
        LET r == addToCart(inputPrice, isFreebie)
        IN /\ clock < MaxLiveCheckouts
           /\ Idle
           /\ isFreebie <=> inputPrice = 0
           /\ ~isRestricted
           /\ selectedBaleId # NoBale
           /\ cart' = r.cart
           /\ oosModalData' = r.oosModalData
           /\ feedback' = r.feedback
           /\ KeepDB
           /\ UNCHANGED <<vipDiscountType, vipDiscount, txPaymentMethod>>
           /\ UNCHANGED <<view, username, selectedBaleId, useVipTicket, allCustomers,
                          clock, lastCall, supabase, devices, app>>
           /\ AutoFillAmountPaid(txAmountPaid)

\* the discount panel is rendered while the current customer of the snapshot
\* has a ticket and the VIP toggle is on
DiscountPanelShown ==
    /\ username \in DOMAIN allCustomers
    /\ allCustomers[username].vipTickets > 0
    /\ useVipTicket

SetVipDiscountType ==
    \E type \in {"NONE", "FIXED", "PERCENTAGE"} :
        /\ clock < MaxLiveCheckouts
        /\ Idle
        /\ DiscountPanelShown
        /\ vipDiscountType' = type
        /\ KeepDB
        /\ UNCHANGED <<vipDiscount, txPaymentMethod>>
        /\ UNCHANGED <<view, username, selectedBaleId, cart, useVipTicket, allCustomers,
                       oosModalData, feedback, clock, lastCall, supabase, devices, app>>
        /\ AutoFillAmountPaid(txAmountPaid)

SetVipDiscount ==
    \E v \in DiscountInputs :
        /\ clock < MaxLiveCheckouts
        /\ Idle
        /\ DiscountPanelShown
        /\ vipDiscountType # "NONE"
        /\ vipDiscount' = v
        /\ KeepDB
        /\ UNCHANGED <<vipDiscountType, txPaymentMethod>>
        /\ UNCHANGED <<view, username, selectedBaleId, cart, useVipTicket, allCustomers,
                       oosModalData, feedback, clock, lastCall, supabase, devices, app>>
        /\ AutoFillAmountPaid(txAmountPaid)

SetTxPaymentMethod ==
    \E m \in PaymentMethods :
        /\ clock < MaxLiveCheckouts
        /\ Idle
        /\ txPaymentMethod' = m
        /\ KeepDB
        /\ UNCHANGED <<vipDiscountType, vipDiscount>>
        /\ UNCHANGED <<view, username, selectedBaleId, cart, useVipTicket, allCustomers,
                       oosModalData, feedback, clock, lastCall, supabase, devices, app>>
        /\ AutoFillAmountPaid(txAmountPaid)

\* the Amt Paid input, rendered while a payment method is selected
SetTxAmountPaid ==
    \E a \in {NoAmount} \cup {<<n>> : n \in AmountInputs} :
        /\ clock < MaxLiveCheckouts
        /\ Idle
        /\ txPaymentMethod # ""
        /\ txAmountPaid' = a
        /\ KeepDB
        /\ UNCHANGED <<vipDiscountType, vipDiscount, txPaymentMethod>>
        /\ UNCHANGED <<view, username, selectedBaleId, cart, useVipTicket, allCustomers,
                       oosModalData, feedback, clock, lastCall, supabase, devices, app>>

NextCheckout ==
    \/ TypeUsername
    \/ HandleEditCustomer
    \/ SelectBale
    \/ PressPrice
    \/ RemoveCartLine
    \/ ToggleVipTicket
    \/ SetVipDiscountType
    \/ SetVipDiscount
    \/ SetTxPaymentMethod
    \/ SetTxAmountPaid
    \/ HandleCheckout
    \/ CloseOosModal
    \/ FeedbackTimeout

CheckoutSpec == InitCheckout /\ [][NextCheckout]_vars

(***************************************************************************)
(* State machine of the order editors: a checkout of ann recorded by       *)
(* LiveSell, then the StatusModal and the inline row editor of the Orders  *)
(* view on the group of that checkout.                                     *)
(***************************************************************************)
\* the carts of the checkout: an item with a freebie, and two priced items
EditorCarts ==
    {<<[price |-> 0, quantity |-> 1, isFreebie |-> TRUE, baleId |-> "B001"],
       [price |-> 100, quantity |-> 1, isFreebie |-> FALSE, baleId |-> "B001"]>>,
     <<[price |-> 300, quantity |-> 1, isFreebie |-> FALSE, baleId |-> "B001"],
       [price |-> 100, quantity |-> 1, isFreebie |-> FALSE, baleId |-> "B001"]>>}

\* the values typed and selected in the StatusModal
ModalAmounts == {0, 50, 200}
ModalShipping == {SHIPPED, CANCELLED}
ModalMethods == {MAYA}
ModalRefs == {"R1", "R1 -> R2"}

\* the fields of a row the inline editor commits
RowFields == {"paymentStatus", "shippingStatus", "paymentMethod", "referenceNumber"}

\* LiveSell with the cart of ann filled and the payment method chosen
InitEditor ==
    \E c \in EditorCarts, method \in PaymentMethods :
        /\ products = <<>>
        /\ orders = <<>>
        /\ customers = InitialCustomers
        /\ bales = LiveBales
        /\ view = "livesell"
        /\ username = "ann"
        /\ selectedBaleId = "B001"
        /\ cart = c
        /\ useVipTicket = FALSE
        /\ allCustomers = Snapshot(InitialCustomers)
        /\ oosModalData = NoData
        /\ vipDiscountType = "NONE"
        /\ vipDiscount = 0
        /\ txPaymentMethod = method
        /\ txAmountPaid = IF method = "" THEN NoAmount ELSE <<SumCartTotal(c)>>
        /\ feedback = NoFeedback
        /\ clock = 0
        /\ lastCall = NoCall
        /\ supabase = Synced(DB)
        /\ devices = ApprovedDevices
        /\ app = ApprovedApp

\* the form states the StatusModal reaches on a group order: the amount input
\* and the status select, then the shipping select, the method select and the
\* reference input
FormDatas(order) ==
    LET f0 == formDataOf(order)
        typed == {f0} \cup {handleAmountChange(order, f0, a) : a \in ModalAmounts}
        selected == typed \cup {handleStatusChange(order, f, st) :
                                   f \in typed, st \in PaymentStatus}
    IN {[f EXCEPT !.shippingStatus = sh, !.paymentMethod = m, !.referenceNumber = r] :
           f \in selected,
           sh \in {f0.shippingStatus} \cup ModalShipping,
           m \in {f0.paymentMethod} \cup ModalMethods,
           r \in {f0.referenceNumber} \cup ModalRefs}

\* the StatusModal opened on a group, edited and saved
HandleSaveClick ==
    \E u \in GroupedUsers(DB) :
        \E formData \in FormDatas(GroupOf(DB, u)) :
            /\ view = "orders"
            /\ Idle
            /\ updateWhole(formData)
            /\ StockCapped(handleSaveClick(DB, GroupOf(DB, u), formData))
            /\ LogsCapped(handleSaveClick(DB, GroupOf(DB, u), formData))
            /\ SetDB(handleSaveClick(DB, GroupOf(DB, u), formData))
            /\ KeepPay
            /\ UNCHANGED <<view, username, selectedBaleId, cart, useVipTicket, allCustomers,
                           oosModalData, feedback, clock, lastCall, supabase, devices, app>>

\* what the row shows for a field: localData
LocalValue(order, field) == IF order[field] = Undefined THEN "" ELSE order[field]

\* the selects of a row fire on a change of the selection, the reference input
\* on every blur
CommitRowChange ==
    \E u \in GroupedUsers(DB), field \in RowFields :
        \E value \in FieldValues(field) :
            /\ view = "orders"
            /\ Idle
            /\ field # "referenceNumber" => value # LocalValue(GroupOf(DB, u), field)
            /\ updateWhole(commitPayload(GroupOf(DB, u), field, value))
            /\ StockCapped(commitChange(DB, GroupOf(DB, u), field, value))
            /\ LogsCapped(commitChange(DB, GroupOf(DB, u), field, value))
            /\ SetDB(commitChange(DB, GroupOf(DB, u), field, value))
            /\ KeepPay
            /\ UNCHANGED <<view, username, selectedBaleId, cart, useVipTicket, allCustomers,
                           oosModalData, feedback, clock, lastCall, supabase, devices, app>>

NextEditor ==
    \/ HandleCheckout
    \/ FeedbackTimeout
    \/ Navigate
    \/ HandleSaveClick
    \/ CommitRowChange
    \/ HandleDelete

EditorSpec == InitEditor /\ [][NextEditor]_vars

(***************************************************************************)
(* State machine of the store alone: the DBService methods called with     *)
(* arguments drawn from small sets, over the store seeded with both bales. *)
(* lastCall records the call of the last step: the method and the bale     *)
(* whose status it recomputed.                                             *)
(***************************************************************************)
ProductIds == {<<"B001", 100, FALSE>>, <<"B002", 0, TRUE>>}
Quantities == {1, 2}
StoreUsernames == {"cat"}
UnknownId == <<-1, 0>>

\* the Order row handleCheckout builds for a cart line paid later
NewOrder(id, productId, quantity, user) ==
    [id |-> id,
     sessionId |-> SessionId,
     customerUsername |-> user,
     productId |-> productId,
     quantity |-> quantity,
     totalPrice |-> productId[2] * quantity,
     isFreebie |-> productId[3],
     paymentStatus |-> IF productId[3] THEN PAID ELSE UNPAID,
     shippingStatus |-> PENDING,
     amountPaid |-> 0,
     paymentMethod |-> Undefined,
     referenceNumber |-> Undefined,
     usedVipTicket |-> FALSE,
     logs |-> <<>>]

\* the orders updateOrder is called with: a stored order with its shipping
\* status or its payment changed, or an order whose id is not stored
UpdatedOrders(d) ==
    {[d.orders[i] EXCEPT !.shippingStatus = s] : i \in 1..Len(d.orders), s \in ShippingStatus}
    \cup {[d.orders[i] EXCEPT !.paymentStatus = PAID, !.amountPaid = d.orders[i].totalPrice] :
             i \in 1..Len(d.orders)}
    \cup {[NewOrder(UnknownId, p, 1, "cat") EXCEPT !.shippingStatus = CANCELLED] :
             p \in DOMAIN d.products}

InitStore ==
    /\ products = <<>>
    /\ orders = <<>>
    /\ customers = InitialCustomers
    /\ bales = InitialBales
    /\ view = "livesell"
    /\ username = NoUser
    /\ selectedBaleId = NoBale
    /\ cart = <<>>
    /\ useVipTicket = FALSE
    /\ allCustomers = Snapshot(InitialCustomers)
    /\ oosModalData = NoData
    /\ vipDiscountType = "NONE"
    /\ vipDiscount = 0
    /\ txPaymentMethod = ""
    /\ txAmountPaid = NoAmount
    /\ feedback = NoFeedback
    /\ clock = 0
    /\ lastCall = NoCall
    /\ supabase = Synced(DB)
    /\ devices = ApprovedDevices
    /\ app = ApprovedApp

KeepUI == UNCHANGED <<view, username, selectedBaleId, cart, useVipTicket, allCustomers,
                      oosModalData, vipDiscountType, vipDiscount, txPaymentMethod,
                      txAmountPaid, feedback, supabase, devices, app>>

\* db.updateProduct(prod) as handleCheckout calls it: the row of a price point
DbUpdateProduct ==
    \E id \in ProductIds :
        /\ SetDB(updateProduct(DB, id, [baleBatch |-> id[1], sellingPrice |-> id[2],
                                        stock |-> 0]))
        /\ lastCall' = [op |-> "updateProduct", refreshed |-> NoBale]
        /\ KeepUI
        /\ UNCHANGED clock

DbAddOrder ==
    \E productId \in DOMAIN products, quantity \in Quantities, user \in StoreUsernames :
        LET order == NewOrder(<<clock, 0>>, productId, quantity, user)
        IN /\ clock < MaxAdds
           /\ SetDB(addOrder(DB, order))
           /\ lastCall' = [op |-> "addOrder", refreshed |-> addOrderBale(DB, order)]
           /\ clock' = clock + 1
           /\ KeepUI

DbUpdateOrder ==
    \E order \in UpdatedOrders(DB) :
        /\ StockCapped(updateOrder(DB, order))
        /\ SetDB(updateOrder(DB, order))
        /\ lastCall' = [op |-> "updateOrder", refreshed |-> updateOrderBale(DB, order)]
        /\ KeepUI
        /\ UNCHANGED clock

DbDeleteOrder ==
    \E id \in {orders[i].id : i \in 1..Len(orders)} \cup {UnknownId} :
        /\ SetDB(deleteOrder(DB, id))
        /\ lastCall' = [op |-> "deleteOrder", refreshed |-> deleteOrderBale(DB, id)]
        /\ KeepUI
        /\ UNCHANGED clock

\* db.updateBale(bale) as the batch editors call it
DbUpdateBale ==
    \E b \in DOMAIN bales, status \in BaleStatus :
        /\ SetDB(handleSaveBale(DB, b, status, bales[b].itemCount))
        /\ lastCall' = [op |-> "updateBale", refreshed |-> NoBale]
        /\ KeepUI
        /\ UNCHANGED clock

NextStore ==
    \/ DbUpdateProduct
    \/ DbAddOrder
    \/ DbUpdateOrder
    \/ DbDeleteOrder
    \/ DbUpdateBale

StoreSpec == InitStore /\ [][NextStore]_vars

(***************************************************************************)
(* State machine of the store and its remote mirror: local writes that     *)
(* fire mirror calls, the calls completing or failing in any order,        *)
(* syncWithSupabase and the realtime refresh of the Customers view.        *)
(***************************************************************************)
MaxSyncWrites == 2     \* local writes per behaviour of SyncSpec
MaxInFlight == 5       \* mirror calls in flight

SyncProductIds == {<<"B001", 100, FALSE>>}
SyncShipping == {SHIPPED, CANCELLED}

\* the row of the price point has been written and mirrored
InitSync ==
    /\ products = [id \in SyncProductIds |->
                      [baleBatch |-> id[1], sellingPrice |-> id[2], stock |-> 0]]
    /\ orders = <<>>
    /\ customers = InitialCustomers
    /\ bales = LiveBales
    /\ view = "livesell"
    /\ username = NoUser
    /\ selectedBaleId = NoBale
    /\ cart = <<>>
    /\ useVipTicket = FALSE
    /\ allCustomers = Snapshot(InitialCustomers)
    /\ oosModalData = NoData
    /\ vipDiscountType = "NONE"
    /\ vipDiscount = 0
    /\ txPaymentMethod = ""
    /\ txAmountPaid = NoAmount
    /\ feedback = NoFeedback
    /\ clock = 0
    /\ lastCall = NoCall
    /\ supabase = Synced(DB)
    /\ devices = ApprovedDevices
    /\ app = ApprovedApp

Fire(calls) ==
    /\ Len(supabase.calls) + Len(calls) <= MaxInFlight
    /\ supabase' = [supabase EXCEPT !.calls = @ \o calls]

\* db.updateProduct(prod) and its mirror call
WriteProduct ==
    \E id \in SyncProductIds :
        LET product == [baleBatch |-> id[1], sellingPrice |-> id[2], stock |-> 0]
        IN /\ view # "customers"
           /\ clock < MaxSyncWrites
           /\ SetDB(updateProduct(DB, id, product))
           /\ Fire(updateProductCalls(id, product))
           /\ lastCall' = [op |-> "updateProduct", refreshed |-> NoBale]
           /\ clock' = clock + 1
           /\ UNCHANGED <<view, username, selectedBaleId, cart, useVipTicket, allCustomers,
                          oosModalData, vipDiscountType, vipDiscount, txPaymentMethod,
                          txAmountPaid, feedback, devices, app>>

\* db.addOrder(order) and its mirror calls
WriteOrder ==
    \E productId \in DOMAIN products, user \in StoreUsernames :
        LET order == NewOrder(<<clock, 0>>, productId, 1, user)
        IN /\ view # "customers"
           /\ clock < MaxSyncWrites
           /\ SetDB(addOrder(DB, order))
           /\ Fire(addOrderCalls(DB, order))
           /\ lastCall' = [op |-> "addOrder", refreshed |-> addOrderBale(DB, order)]
           /\ clock' = clock + 1
           /\ UNCHANGED <<view, username, selectedBaleId, cart, useVipTicket, allCustomers,
                          oosModalData, vipDiscountType, vipDiscount, txPaymentMethod,
                          txAmountPaid, feedback, devices, app>>

\* db.updateOrder(order) and its mirror calls
ChangeOrder ==
    \E i \in 1..Len(orders), s \in SyncShipping :
        LET order == [orders[i] EXCEPT !.shippingStatus = s]
        IN /\ view # "customers"
           /\ clock < MaxSyncWrites
           /\ SetDB(updateOrder(DB, order))
           /\ Fire(updateOrderCalls(DB, order))
           /\ lastCall' = [op |-> "updateOrder", refreshed |-> updateOrderBale(DB, order)]
           /\ clock' = clock + 1
           /\ UNCHANGED <<view, username, selectedBaleId, cart, useVipTicket, allCustomers,
                          oosModalData, vipDiscountType, vipDiscount, txPaymentMethod,
                          txAmountPaid, feedback, devices, app>>

\* db.deleteOrder(id) and its mirror calls
RemoveOrder ==
    \E i \in 1..Len(orders) :
        /\ view # "customers"
        /\ clock < MaxSyncWrites
        /\ SetDB(deleteOrder(DB, orders[i].id))
        /\ Fire(deleteOrderCalls(DB, orders[i].id))
        /\ lastCall' = [op |-> "deleteOrder", refreshed |-> deleteOrderBale(DB, orders[i].id)]
        /\ clock' = clock + 1
        /\ UNCHANGED <<view, username, selectedBaleId, cart, useVipTicket, allCustomers,
                       oosModalData, vipDiscountType, vipDiscount, txPaymentMethod,
                       txAmountPaid, feedback, devices, app>>

KeepLocal ==
    /\ KeepDB
    /\ UNCHANGED <<username, selectedBaleId, cart, useVipTicket, allCustomers,
                   oosModalData, vipDiscountType, vipDiscount, txPaymentMethod,
                   txAmountPaid, feedback, clock, devices, app>>

\* a mirror call completes at the remote tables; a change of the orders table
\* is announced on the realtime channel
MirrorCompletes ==
    \E i \in 1..Len(supabase.calls) :
        LET c == supabase.calls[i]
        IN /\ supabase' = [applyCall(supabase, c) EXCEPT
                              !.calls = RemoveAt(@, i),
                              !.notify = @ \/ c.table = "orders"]
           /\ KeepLocal
           /\ UNCHANGED <<view, lastCall>>

\* a mirror call fails: the error is logged or dropped, the call is not retried
MirrorFails ==
    \E i \in 1..Len(supabase.calls) :
        /\ supabase' = [supabase EXCEPT !.calls = RemoveAt(@, i)]
        /\ KeepLocal
        /\ UNCHANGED <<view, lastCall>>

\* syncWithSupabase: the selects have returned the rows of the remote tables
SyncFetch ==
    /\ supabase.fetched = <<>>
    /\ supabase' = [supabase EXCEPT
                       !.fetched = <<[products |-> supabase.products,
                                      orders |-> supabase.orders,
                                      customers |-> supabase.customers,
                                      bales |-> supabase.bales]>>]
    /\ KeepLocal
    /\ UNCHANGED <<view, lastCall>>

\* syncWithSupabase: the fetched rows overwrite the local collections
SyncStore ==
    /\ supabase.fetched # <<>>
    /\ SetDB(supabase.fetched[1])
    /\ supabase' = [supabase EXCEPT !.fetched = <<>>]
    /\ lastCall' = [op |-> "syncWithSupabase", refreshed |-> NoBale]
    /\ UNCHANGED <<view, username, selectedBaleId, cart, useVipTicket, allCustomers,
                   oosModalData, vipDiscountType, vipDiscount, txPaymentMethod,
                   txAmountPaid, feedback, clock, devices, app>>

\* App: the Customers tab is opened
OpenCustomers ==
    /\ view # "customers"
    /\ view' = "customers"
    /\ KeepLocal
    /\ UNCHANGED <<lastCall, supabase, devices, app>>

\* Customers: the orders channel announces a change; the rows of the remote
\* orders table overwrite paw_orders
RealtimeOrders ==
    /\ view = "customers"
    /\ supabase.notify
    /\ orders' = supabase.orders
    /\ supabase' = [supabase EXCEPT !.notify = FALSE]
    /\ lastCall' = [op |-> "realtime", refreshed |-> NoBale]
    /\ UNCHANGED <<products, customers, bales, view, username, selectedBaleId, cart,
                   useVipTicket, allCustomers, oosModalData, vipDiscountType, vipDiscount,
                   txPaymentMethod, txAmountPaid, feedback, clock, devices, app>>

NextSync ==
    \/ WriteProduct
    \/ WriteOrder
    \/ ChangeOrder
    \/ RemoveOrder
    \/ MirrorCompletes
    \/ MirrorFails
    \/ SyncFetch
    \/ SyncStore
    \/ OpenCustomers
    \/ RealtimeOrders

SyncSpec == InitSync /\ [][NextSync]_vars

(***************************************************************************)
(* State machine of the access gate: App from its mount, the calls of      *)
(* registerOrCheckDevice by initApp, the polling loop, the manual check    *)
(* and the heartbeat, the realtime callback, and the admin who changes or  *)
(* deletes the row of the device.  lastCall records the return of          *)
(* registerOrCheckDevice in the step in which a call returns.              *)
(***************************************************************************)
NoReturn ==
    [op |-> "none", refreshed |-> NoBale, caller |-> "", device |-> NullDevice,
     failed |-> 0, waits |-> <<>>]

Return(c, device, failed, waits) ==
    [op |-> "registerOrCheckDevice", refreshed |-> NoBale, caller |-> c,
     device |-> device, failed |-> failed, waits |-> waits]

\* the rows of the device at the mount of App: none, or a row an earlier
\* visit has registered
StartRows == {NullDevice} \cup {[id |-> 1, status |-> st] : st \in DeviceStatus}

InitGate ==
    /\ products = [id \in {} |-> 0]
    /\ orders = <<>>
    /\ customers = InitialCustomers
    /\ bales = LiveBales
    /\ view = "livesell"
    /\ username = NoUser
    /\ selectedBaleId = NoBale
    /\ cart = <<>>
    /\ useVipTicket = FALSE
    /\ allCustomers = Snapshot(InitialCustomers)
    /\ oosModalData = NoData
    /\ vipDiscountType = "NONE"
    /\ vipDiscount = 0
    /\ txPaymentMethod = ""
    /\ txAmountPaid = NoAmount
    /\ feedback = NoFeedback
    /\ clock = 0
    /\ lastCall = NoReturn
    /\ supabase = Synced(DB)
    /\ \E row \in StartRows :
          devices = [NoDevices EXCEPT !.row = row,
                                      !.nextId = IF row = NullDevice THEN 1 ELSE 2]
    /\ app = [NoApp EXCEPT !.calls["initApp"] = FirstAttempt]

\* the shop is not touched
KeepShop ==
    /\ KeepDB
    /\ UNCHANGED <<view, username, selectedBaleId, cart, useVipTicket, allCustomers,
                   oosModalData, vipDiscountType, vipDiscount, txPaymentMethod,
                   txAmountPaid, feedback, clock, supabase>>

\* syncWithSupabase: the rows of the remote tables overwrite the local ones
SyncShop ==
    /\ SetDB([products |-> supabase.products, orders |-> supabase.orders,
              customers |-> supabase.customers, bales |-> supabase.bales])
    /\ UNCHANGED <<view, username, selectedBaleId, cart, useVipTicket, allCustomers,
                   oosModalData, vipDiscountType, vipDiscount, txPaymentMethod,
                   txAmountPaid, feedback, clock, supabase>>

\* an attempt of registerOrCheckDevice succeeds: the call returns its device
AttemptSucceeds(c) ==
    LET call == app.calls[c]
        r == performCheck(devices)
    IN /\ call.pc = "check"
       /\ devices' = r.devices
       /\ app' = resumed(app, c, r.device)
       /\ lastCall' = Return(c, r.device, call.i, call.waits)
       /\ KeepShop

\* an attempt of registerOrCheckDevice throws: the call waits for its next
\* attempt, or returns null
AttemptFails(c) ==
    LET call == attemptFailed(app.calls[c])
        a == [app EXCEPT !.failures = @ + 1]
    IN /\ app.calls[c].pc = "check"
       /\ app.failures < MaxFailures
       /\ IF call.pc = "null"
          THEN /\ app' = resumed(a, c, NullDevice)
               /\ lastCall' = Return(c, NullDevice, call.i, call.waits)
          ELSE /\ app' = [a EXCEPT !.calls[c] = call]
               /\ lastCall' = NoReturn
       /\ UNCHANGED devices
       /\ KeepShop

\* the backoff timer of registerOrCheckDevice fires: the next attempt starts
BackoffElapses(c) ==
    /\ app.calls[c].pc = "wait"
    /\ app' = [app EXCEPT !.calls[c].pc = "check"]
    /\ lastCall' = NoReturn
    /\ UNCHANGED devices
    /\ KeepShop

\* the syncWithSupabase a caller awaits returns
SyncCompletes(c) ==
    /\ app.calls[c].pc = "sync"
    /\ app' = synced(app, c)
    /\ lastCall' = NoReturn
    /\ UNCHANGED devices
    /\ SyncShop

\* one caller of registerOrCheckDevice moves on
CallerStep(c) ==
    \/ AttemptSucceeds(c)
    \/ AttemptFails(c)
    \/ BackoffElapses(c)
    \/ SyncCompletes(c)

CallerSteps == \E c \in Callers : CallerStep(c)

\* the timer of the polling effect fires: checkApprovalLoop
PollTimer ==
    /\ isMounted(app)
    /\ app.calls["checkApprovalLoop"] = NotCalling
    /\ app' = [app EXCEPT !.calls["checkApprovalLoop"] = FirstAttempt]
    /\ lastCall' = NoReturn
    /\ UNCHANGED devices
    /\ KeepShop

\* the 'Check Status' button of the pending screen: handleManualCheck
ClickCheckStatus ==
    /\ screen(app) = "pending"
    /\ app.calls["handleManualCheck"] = NotCalling
    /\ app' = [app EXCEPT !.isLoading = TRUE, !.calls["handleManualCheck"] = FirstAttempt]
    /\ lastCall' = NoReturn
    /\ UNCHANGED devices
    /\ KeepShop

\* the interval of the heartbeat effect fires
HeartbeatTick ==
    /\ app.checkStatus = "approved"
    /\ app.calls["heartbeat"] = NotCalling
    /\ app' = [app EXCEPT !.calls["heartbeat"] = FirstAttempt]
    /\ lastCall' = NoReturn
    /\ UNCHANGED devices
    /\ KeepShop

\* DeviceManagement on the admin's device: updateDeviceStatus(id, status)
AdminSetsStatus ==
    \E st \in DeviceStatus :
        /\ devices.row # NullDevice
        /\ devices.row.status # st
        /\ devices.ops < MaxAdminOps
        /\ devices' = announce([devices EXCEPT !.row.status = st, !.ops = @ + 1])
        /\ lastCall' = NoReturn
        /\ UNCHANGED app
        /\ KeepShop

\* DeviceManagement on the admin's device: deleteDevice(id)
AdminDeletes ==
    /\ devices.row # NullDevice
    /\ devices.ops < MaxAdminOps
    /\ devices' = [devices EXCEPT !.row = NullDevice, !.ops = @ + 1]
    /\ lastCall' = NoReturn
    /\ UNCHANGED app
    /\ KeepShop

\* an UPDATE event reaches the client: the callback of the channel runs if
\* the channel is subscribed
RealtimeDelivers ==
    /\ devices.events # <<>>
    /\ devices' = [devices EXCEPT !.events = Tail(@)]
    /\ app' = IF subscribed(app) THEN realtimeUpdate(app, Head(devices.events)) ELSE app
    /\ lastCall' = NoReturn
    /\ KeepShop

\* the syncWithSupabase a realtime callback awaits returns
RealtimeSyncCompletes ==
    /\ app.realtime > 0
    /\ app' = realtimeSynced(app)
    /\ lastCall' = NoReturn
    /\ UNCHANGED devices
    /\ SyncShop

\* the button of the success overlay
DismissSuccess ==
    /\ screen(app) = "success"
    /\ app' = [app EXCEPT !.justApproved = FALSE]
    /\ lastCall' = NoReturn
    /\ UNCHANGED devices
    /\ KeepShop

NextGate ==
    \/ CallerSteps
    \/ PollTimer
    \/ ClickCheckStatus
    \/ HeartbeatTick
    \/ AdminSetsStatus
    \/ AdminDeletes
    \/ RealtimeDelivers
    \/ RealtimeSyncCompletes
    \/ DismissSuccess

\* a promise that is awaited settles, a timer that is set fires
GateFairness ==
    /\ \A c \in Callers : WF_vars(CallerStep(c))
    /\ WF_vars(PollTimer)
    /\ WF_vars(HeartbeatTick)
    /\ WF_vars(RealtimeDelivers)
    /\ WF_vars(RealtimeSyncCompletes)

GateSpec == InitGate /\ [][NextGate]_vars /\ GateFairness

(***************************************************************************)
(* Properties of the store (StoreSpec)                                     *)
(***************************************************************************)
\* the store a step leaves behind
DBNext == [products |-> products', orders |-> orders', customers |-> customers',
           bales |-> bales']

\* C1: immediately after the status recompute that addOrder, updateOrder or
\* deleteOrder triggers for a bale, the bale's stored status is 'Sold Out'
\* exactly when itemCount > 0 and the summed quantity of the non-Cancelled
\* orders on the bale's products is >= itemCount.
C1_SoldOutExactlyWhenFull ==
    lastCall.refreshed # NoBale =>
        LET bale == bales[lastCall.refreshed]
        IN (bale.status = "Sold Out")
           <=> (bale.itemCount > 0 /\ SoldCount(DB, lastCall.refreshed) >= bale.itemCount)

C5_UpdateOrderStock ==
    [][lastCall'.op = "updateOrder" =>
        /\ DOMAIN products' = DOMAIN products
        /\ Len(orders') = Len(orders)
        /\ \/ /\ orders' = orders
              /\ \A p \in DOMAIN products : products'[p].stock = products[p].stock
           \/ \E i \in 1..Len(orders) :
                 LET returned == /\ orders'[i].shippingStatus \in {CANCELLED, RTS}
                                 /\ orders[i].shippingStatus \notin {CANCELLED, RTS}
                 IN /\ orders'[i] # orders[i]
                    /\ orders' = [orders EXCEPT ![i] = orders'[i]]
                    /\ \A p \in DOMAIN products :
                          products'[p].stock =
                              products[p].stock
                              + (IF returned /\ p = orders[i].productId
                                 THEN orders[i].quantity ELSE 0)]_vars

\* C5 witness: an updateOrder to Cancelled or RTS has handed stock back, which
\* left its product with more stock than the row was created with
C5_Witness ==
    /\ lastCall.op = "updateOrder"
    /\ lastCall.refreshed # NoBale
    /\ \E i \in 1..Len(orders) :
          /\ orders[i].shippingStatus \in {CANCELLED, RTS}
          /\ ~orders[i].isFreebie
          /\ products[orders[i].productId].stock > 0

\* C7: the automatic status recompute demotes a bale to 'On Sale' whenever
\* its sold count is below itemCount and its status is Ordered, Arrived or
\* Sold Out; it changes a bale that is 'On Sale' only when the sold count
\* reaches itemCount; the only values it writes are 'Sold Out' and 'On Sale'.
C7_RecomputePolicy ==
    [][lastCall'.refreshed # NoBale =>
        LET b == lastCall'.refreshed
            soldCount == SoldCount(DBNext, b)
            old == bales[b].status
            new == bales'[b].status
        IN /\ (soldCount < bales[b].itemCount /\ old \in {"Ordered", "Arrived", "Sold Out"})
                  => new = "On Sale"
           /\ (old = "On Sale" /\ new # old) => soldCount >= bales[b].itemCount
           /\ new # old => new \in {"Sold Out", "On Sale"}]_vars

\* the orders on the products of a bale whose shippingStatus is not Cancelled
LiveOrdersOf(baleId) ==
    {i \in 1..Len(orders) :
        /\ orders[i].productId \in DOMAIN products
        /\ products[orders[i].productId].baleBatch = baleId
        /\ orders[i].shippingStatus # CANCELLED}

RECURSIVE SumOver(_, _)
SumOver(I, field) ==
    IF I = {} THEN 0
    ELSE LET i == CHOOSE j \in I : TRUE
         IN orders[i][field] + SumOver(I \ {i}, field)

\* C22: for every bale, the store's status recompute, LiveSell's getBaleStats
\* with an empty cart, the Bales view's and the Inventory view's getBaleStats
\* give the same soldCount and revenue: the sums of quantity and totalPrice
\* over the orders on the bale's products that are not Cancelled.
C22_BaleCalculatorsAgree ==
    \A b \in DOMAIN bales :
        LET sold == SumOver(LiveOrdersOf(b), "quantity")
            revenue == SumOver(LiveOrdersOf(b), "totalPrice")
        IN /\ SoldCount(DB, b) = sold
           /\ cart = <<>> => /\ getBaleStats(b).sold = sold
                             /\ getBaleStats(b).revenue = revenue
           /\ BalesGetBaleStats(DB, b).soldCount = sold
           /\ BalesGetBaleStats(DB, b).revenue = revenue
           /\ InventoryGetBaleStats(DB, b).soldCount = sold
           /\ InventoryGetBaleStats(DB, b).revenue = revenue

\* C25: for every product row and every new order on it, freebie or not,
\* adding the order and then cancelling it or marking it RTS leaves the stock
\* of the row as it was before the add, and setting the order back to Pending
\* and to Cancelled (or RTS) once more does not change the stock again.
C25_StockTakenAndReturnedBalance ==
    \A p \in DOMAIN products, q \in Quantities, s \in {CANCELLED, RTS} :
        LET order == NewOrder(UnknownId, p, q, "cat")
            added == addOrder(DB, order)
            cancelled == updateOrder(added, [order EXCEPT !.shippingStatus = s])
            reopened == updateOrder(cancelled, [order EXCEPT !.shippingStatus = PENDING])
            again == updateOrder(reopened, [order EXCEPT !.shippingStatus = s])
        IN /\ cancelled.products[p].stock = products[p].stock
           /\ again.products[p].stock = cancelled.products[p].stock

\* C26: whenever updateOrder returns the quantity of an order to the stock
\* (the order becomes Cancelled or RTS), the recompute of the bale's status
\* that follows counts that quantity as sold no longer, and a bale that was
\* 'Sold Out' and is not full without that order is 'Sold Out' no longer.
C26_ReturnedOrderNotCountedAsSold ==
    [][(lastCall'.op = "updateOrder" /\ lastCall'.refreshed # NoBale)
       => \A i \in 1..Len(orders) :
             (/\ orders'[i].shippingStatus \in {CANCELLED, RTS}
              /\ orders[i].shippingStatus \notin {CANCELLED, RTS})
             => LET b == lastCall'.refreshed
                    without == SoldCount(DB, b) - orders[i].quantity
                IN /\ SoldCount(DBNext, b) = without
                   /\ (bales[b].status = "Sold Out" /\ without < bales[b].itemCount)
                         => bales'[b].status # "Sold Out"]_vars

(***************************************************************************)
(* Properties of the application (Spec)                                    *)
(***************************************************************************)
\* C2: after any sequence of addToCart, checkout, edit of a customer's
\* orders, order status updates (Cancelled back to Pending or Shipped
\* included) and order deletions, for every bale the summed quantity of its
\* non-Cancelled orders never exceeds the bale's itemCount.
C2_SoldWithinItemCount ==
    \A b \in DOMAIN bales : SoldCount(DB, b) <= bales[b].itemCount

C6_DeleteReturnsStock ==
    /\ \A i \in 1..Len(orders) :
          (orders[i].sessionId = SessionId /\ ~orders[i].isFreebie
           /\ orders[i].productId \in DOMAIN products)
          => handleDeleteItem(DB, orders[i].id).products[orders[i].productId].stock
                 = products[orders[i].productId].stock + orders[i].quantity
    /\ \A u \in GroupedUsers(DB) : \A p \in DOMAIN products :
          LET Returned(o) == o.productId = p /\ ~o.isFreebie
          IN handleManualDelete(DB, u).products[p].stock
                 = products[p].stock
                   + SumQuantity(SelectSeq(SessionOrdersOf(DB, u), Returned))

\* C8: every VIP ticket taken at a checkout is given back exactly once when
\* the orders of that checkout are removed, on every removal path: for each
\* customer, vipTickets plus the number of the customer's stored checkouts
\* that used a ticket equals the number of tickets granted.
C8_TicketsConserved ==
    \A u \in DOMAIN InitialCustomers :
        LET vipCheckouts == {orders[i].id[1] :
                                i \in {j \in 1..Len(orders) :
                                          /\ orders[j].customerUsername = u
                                          /\ orders[j].usedVipTicket}}
        IN customers[u].vipTickets + Cardinality(vipCheckouts)
               = InitialCustomers[u].vipTickets

\* C9: deleting a customer's session orders of which at least one used a VIP
\* ticket increases the customer's vipTickets by exactly one (and by nothing
\* when none did); moving the orders into the cart for editing returns the
\* ticket once and leaves the customer no session orders, and an edit of a
\* customer who has no session orders (a second edit before the cart is
\* checked out) changes nothing in the store.
C9_TicketReturnedOnce ==
    /\ \A u \in GroupedUsers(DB) :
          LET ticket == IF AnyUsedVipTicket(SessionOrdersOf(DB, u)) THEN 1 ELSE 0
          IN /\ handleManualDelete(DB, u).customers[u].vipTickets
                    = customers[u].vipTickets + ticket
             /\ \A confirmed \in BOOLEAN :
                   LET r == handleEditCustomer(u, confirmed)
                       declined == Len(cart) > 0 /\ username # u /\ ~confirmed
                   IN IF declined THEN r.db = DB
                      ELSE /\ r.db.customers[u].vipTickets = customers[u].vipTickets + ticket
                           /\ SessionOrdersOf(r.db, u) = <<>>
                           /\ r.useVipTicket = (ticket = 1)
    /\ \A u \in Usernames \ GroupedUsers(DB) : \A confirmed \in BOOLEAN :
          handleEditCustomer(u, confirmed).db = DB

\* C9 witness: an edit has moved a checkout that used a ticket into the cart
\* and the customer holds the ticket again
C9_Witness ==
    /\ feedback = "Editing"
    /\ useVipTicket
    /\ cart # <<>>
    /\ SessionOrdersOf(DB, username) = <<>>
    /\ customers[username].vipTickets = InitialCustomers[username].vipTickets

\* C10: checkout for a username whose stored customer is blacklisted creates
\* no order, changes no product stock, bale status or VIP ticket count and
\* leaves the cart as it was; addToCart while the current customer is
\* blacklisted leaves the cart unchanged.
C10_BlacklistedBlocked ==
    /\ (username \in DOMAIN customers /\ customers[username].isBlacklisted)
       => (handleCheckout.db = DB /\ handleCheckout.cart = cart)
    /\ (username \in DOMAIN allCustomers /\ allCustomers[username].isBlacklisted)
       => \A inputPrice \in PresetPrices, isFreebie \in BOOLEAN :
             addToCart(inputPrice, isFreebie).cart = cart

\* C10 witness: a filled cart and a selected batch are at hand while the
\* username is that of a blacklisted customer
C10_Witness ==
    /\ view = "livesell"
    /\ cart # <<>>
    /\ selectedBaleId # NoBale
    /\ getBaleStats(selectedBaleId).remaining > 0
    /\ username \in DOMAIN customers
    /\ customers[username].isBlacklisted
    /\ isRestricted

\* C24: a checkout whose cart line maps to a product row that exists already
\* keeps the stock the row has accumulated and subtracts only the quantity of
\* the orders the checkout adds on that row (the rows of items that are not
\* freebies; addOrder takes no stock for a freebie).
C24_CheckoutKeepsRowStock ==
    [][Len(orders') > Len(orders)
       => \A p \in DOMAIN products :
             LET OnRow(o) == o.productId = p
                 added == SubSeq(orders', Len(orders) + 1, Len(orders'))
             IN (~p[3] /\ SelectSeq(added, OnRow) # <<>>)
                => products'[p].stock
                      = products[p].stock - SumQuantity(SelectSeq(added, OnRow))]_vars

\* the stored orders of a customer that are not Cancelled
CountedOrdersOf(u) ==
    {i \in 1..Len(orders) :
        orders[i].customerUsername = u /\ orders[i].shippingStatus # CANCELLED}

\* the totalSpent and orderCount a customer row is seeded or created with
SeededCustomer(u) ==
    IF u \in DOMAIN InitialCustomers THEN InitialCustomers[u]
    ELSE [totalSpent |-> 0, orderCount |-> 0]

\* C28: the stored totalSpent and orderCount of every customer are the values
\* the row started with plus the summed totalPrice and the summed quantity of
\* the customer's stored orders that are not Cancelled.
C28_CustomerAggregatesMatchOrders ==
    \A u \in DOMAIN customers :
        /\ customers[u].totalSpent
              = SeededCustomer(u).totalSpent + SumOver(CountedOrdersOf(u), "totalPrice")
        /\ customers[u].orderCount
              = SeededCustomer(u).orderCount + SumOver(CountedOrdersOf(u), "quantity")

(***************************************************************************)
(* Properties of the checkout panel (CheckoutSpec)                         *)
(***************************************************************************)
\* the checkout validations of the current LiveSell state
checkoutCustomer ==
    IF username \in DOMAIN customers THEN customers[username]
    ELSE [isVIP |-> FALSE, vipTickets |-> 0, isBlacklisted |-> FALSE,
          totalSpent |-> 0, orderCount |-> 0]
overCap == useVipTicket /\ vipDiscountType = "FIXED" /\ vipDiscount > cartTotal
noTicket == useVipTicket /\ checkoutCustomer.vipTickets <= 0
checkoutProceeds ==
    username # NoUser /\ ~checkoutCustomer.isBlacklisted /\ ~overCap /\ ~noTicket

\* C11: a checkout that aborts on a validation failure (missing username,
\* fixed discount larger than the cart total, VIP ticket requested but none
\* available) leaves every stored collection and the cart unchanged, and in
\* the no-ticket case switches the VIP toggle off.
C11_AbortLeavesStoreUnchanged ==
    LET pressed == Len(cart) > 0 /\ username # NoUser /\ ~isRestricted
    IN /\ username = NoUser => (handleCheckout.db = DB /\ handleCheckout.cart = cart)
       /\ (pressed /\ ~checkoutCustomer.isBlacklisted /\ (overCap \/ noTicket))
          => (handleCheckout.db = DB /\ handleCheckout.cart = cart)
       /\ (pressed /\ ~checkoutCustomer.isBlacklisted /\ ~overCap /\ noTicket)
          => handleCheckout.useVipTicket = FALSE

LinesLike(c, price, isFreebie, baleId) ==
    {i \in 1..Len(c) : c[i].price = price /\ c[i].isFreebie = isFreebie
                       /\ c[i].baleId = baleId}

\* no two lines of the cart have the same (price, isFreebie, baleId)
OneLinePerKey(c) ==
    \A i, j \in 1..Len(c) :
        (c[i].price = c[j].price /\ c[i].isFreebie = c[j].isFreebie
         /\ c[i].baleId = c[j].baleId) => i = j

\* C13: a cart built by addToCart alone never holds two lines with the same
\* (price, isFreebie, baleId): the empty cart holds none and addToCart keeps
\* the lines distinct; an add that finds a matching line increments that
\* line's quantity by 1 and otherwise adds a new line of quantity 1, leaving
\* the other lines as they are; checkout creates exactly one order per cart
\* line, carrying the line's full quantity.
C13_OneLinePerPriceOneOrderPerLine ==
    /\ \A inputPrice \in PresetPrices \cup CustomPrices \cup {0} :
          OneLinePerKey(cart) => OneLinePerKey(addToCart(inputPrice, inputPrice = 0).cart)
    /\ \A inputPrice \in PresetPrices \cup CustomPrices \cup {0} :
          LET isFreebie == inputPrice = 0
              r == addToCart(inputPrice, isFreebie)
              match == LinesLike(cart, inputPrice, isFreebie, selectedBaleId)
              Line(c, k) == [price |-> c[k].price, isFreebie |-> c[k].isFreebie,
                             baleId |-> c[k].baleId, quantity |-> c[k].quantity]
              \* of the lines of one key that an edit has loaded, the first
              added(k) == IF k \in match /\ \A j \in match : k <= j THEN 1 ELSE 0
          IN (~isRestricted /\ selectedBaleId # NoBale
              /\ getBaleStats(selectedBaleId).remaining > 0)
             => /\ Len(r.cart) = Len(cart) + (IF match = {} THEN 1 ELSE 0)
                /\ {Line(r.cart, k) : k \in 1..Len(r.cart)}
                     = {[Line(cart, k) EXCEPT !.quantity = @ + added(k)] : k \in 1..Len(cart)}
                       \cup (IF match = {}
                             THEN {[price |-> inputPrice, isFreebie |-> isFreebie,
                                    baleId |-> selectedBaleId, quantity |-> 1]}
                             ELSE {})
    /\ (checkoutProceeds /\ checkoutWhole)
       => LET new == handleCheckout.db.orders
          IN /\ Len(new) = Len(orders) + Len(cart)
             /\ SubSeq(new, 1, Len(orders)) = orders
             /\ \A k \in 1..Len(cart) :
                   /\ new[Len(orders) + k].quantity = cart[k].quantity
                   /\ new[Len(orders) + k].isFreebie = cart[k].isFreebie
                   /\ new[Len(orders) + k].productId
                        = <<cart[k].baleId, cart[k].price, cart[k].isFreebie>>
                   /\ new[Len(orders) + k].customerUsername = username
                   /\ ~useVipTicket
                         => new[Len(orders) + k].totalPrice = cart[k].price * cart[k].quantity

\* C13 witness: three adds at price 100 were checked out as one order of
\* quantity 3 and total 300
C13_Witness ==
    /\ Len(orders) = 1
    /\ orders[1].quantity = 3
    /\ orders[1].totalPrice = 300
    /\ orders[1].productId = <<"B001", 100, FALSE>>

\* C14: at a checkout with a payment method selected and tendered amount T,
\* each non-freebie order gets amountPaid = (its discounted line total /
\* finalTotal) * T (0 when finalTotal is 0) and paymentStatus Paid if
\* amountPaid >= lineTotal - 0.01, Partial if amountPaid > 0, otherwise Unpaid;
\* with no payment method selected every non-freebie order is Unpaid with
\* amountPaid 0.
C14_PaymentDistribution ==
    (checkoutProceeds /\ checkoutWhole)
    => LET new == handleCheckout.db.orders
           T == IF txAmountPaid = NoAmount THEN 0 ELSE txAmountPaid[1]
       IN \A k \in 1..Len(cart) :
             LET o == new[Len(orders) + k]
                 lineTotal == o.totalPrice
             IN ~cart[k].isFreebie
                => IF txPaymentMethod = ""
                   THEN o.amountPaid = 0 /\ o.paymentStatus = UNPAID
                   ELSE /\ IF finalTotal > 0
                           THEN o.amountPaid * finalTotal = lineTotal * T
                           ELSE o.amountPaid = 0
                        /\ o.paymentStatus =
                              IF 100 * o.amountPaid >= 100 * lineTotal - 1 THEN PAID
                              ELSE IF o.amountPaid > 0 THEN PARTIAL
                              ELSE UNPAID

\* C14 witness: a checkout with half of the total tendered left an order that
\* is paid by half and Partial
C14_Witness ==
    \E i \in 1..Len(orders) :
        /\ orders[i].paymentStatus = PARTIAL
        /\ orders[i].paymentMethod = "GCash"
        /\ orders[i].totalPrice = 100
        /\ orders[i].amountPaid = 50

RowOf(d, before) == d.orders[FindOrder(d.orders, before.id)]

\* every order of the group holds the status fields of updated and its share
\* of the amount paid
Written(d, order, updated) ==
    LET total == SumTotalPrice(order.items)
    IN \A i \in 1..Len(order.items) :
          LET before == order.items[i]
              after == RowOf(d, before)
          IN /\ FindOrder(d.orders, before.id) > 0
             /\ after.paymentStatus = updated.paymentStatus
             /\ after.shippingStatus = updated.shippingStatus
             /\ after.paymentMethod = updated.paymentMethod
             /\ after.referenceNumber = updated.referenceNumber
             /\ updated.paymentStatus = PAID => after.amountPaid = before.totalPrice
             /\ updated.paymentStatus = UNPAID => after.amountPaid = 0
             /\ (updated.paymentStatus = PARTIAL /\ total > 0)
                   => after.amountPaid * total = before.totalPrice * updated.amountPaid
             /\ (updated.paymentStatus = PARTIAL /\ total <= 0) => after.amountPaid = 0

\* the commits the inline editor of a row can make on the group order
RowCommits(order) ==
    {c \in [field : RowFields, value : {"", "R1", GCASH, UNPAID, PAID} \cup ShippingStatus] :
        /\ c.value \in FieldValues(c.field)
        /\ c.field # "referenceNumber" => c.value # LocalValue(order, c.field)
        /\ order[c.field] # c.value
        /\ updateWhole(commitPayload(order, c.field, c.value))}

\* C15: a save of an edited order group, from the StatusModal or from the
\* inline editor of the row, writes the group's paymentStatus, shippingStatus,
\* paymentMethod and referenceNumber to every order of the group and sets
\* each one's amountPaid to its own totalPrice when the status is Paid, to 0
\* when Unpaid, and to totalPrice * (group amountPaid / sum of the totalPrice
\* of the group) when Partial (0 when that sum is 0).
C15_SaveWritesGroupFields ==
    view = "orders"
    => \A u \in GroupedUsers(DB) :
          LET order == GroupOf(DB, u)
          IN /\ \A formData \in FormDatas(order) :
                   updateWhole(formData)
                   => Written(handleSaveClick(DB, order, formData), order, formData)
             /\ \A c \in RowCommits(order) :
                   Written(commitChange(DB, order, c.field, c.value), order,
                           commitPayload(order, c.field, c.value))

\* C15 witness: a Partial save of 200 on a group of 300 and 100 has booked 150
\* and 50
C15_Witness ==
    /\ Len(orders) = 2
    /\ \E i, j \in 1..Len(orders) :
          /\ orders[i].totalPrice = 300 /\ orders[i].amountPaid = 150
          /\ orders[j].totalPrice = 100 /\ orders[j].amountPaid = 50
          /\ orders[i].paymentStatus = PARTIAL /\ orders[j].paymentStatus = PARTIAL
          /\ Len(orders[i].logs) = 1

\* C16: every stored freebie order has totalPrice 0 and paymentStatus Paid,
\* also after the group that holds it was edited and saved.
C16_FreebiePaid ==
    \A i \in 1..Len(orders) :
        orders[i].isFreebie => (orders[i].totalPrice = 0 /\ orders[i].paymentStatus = PAID)

\* the paymentStatus and amountPaid of every order of the group are as before
PaymentKept(d, order) ==
    \A i \in 1..Len(order.items) :
        LET before == order.items[i]
            after == RowOf(d, before)
        IN /\ after.paymentStatus = before.paymentStatus
           /\ after.amountPaid = before.amountPaid

\* C23: a change of only the shippingStatus, paymentMethod or referenceNumber
\* of an order group, by the inline editor of its row or by a StatusModal save
\* that leaves the payment status and the amount as they were, leaves the
\* paymentStatus and amountPaid of every order of the group unchanged.
C23_StatusEditKeepsPayment ==
    view = "orders"
    => \A u \in GroupedUsers(DB) :
          LET order == GroupOf(DB, u)
          IN /\ \A c \in RowCommits(order) :
                   c.field # "paymentStatus"
                   => PaymentKept(commitChange(DB, order, c.field, c.value), order)
             /\ \A formData \in FormDatas(order) :
                   (/\ updateWhole(formData)
                    /\ formData.paymentStatus = order.paymentStatus
                    /\ formData.amountPaid = order.amountPaid)
                   => PaymentKept(handleSaveClick(DB, order, formData), order)

\* the amounts of an order agree with its paymentStatus (the tolerance of
\* 0.01 in hundredths)
PaymentAgrees(o) ==
    /\ 0 <= o.amountPaid
    /\ o.amountPaid <= o.totalPrice
    /\ o.paymentStatus = PAID => 100 * o.amountPaid >= 100 * o.totalPrice - 1
    /\ (o.paymentStatus = UNPAID /\ ~o.isFreebie) => o.amountPaid = 0
    /\ o.paymentStatus = PARTIAL => (0 < o.amountPaid /\ o.amountPaid < o.totalPrice)

\* C27: every stored order has 0 <= amountPaid <= totalPrice and a
\* paymentStatus that agrees with its amounts: Paid implies amountPaid >=
\* totalPrice - 0.01, Unpaid implies amountPaid = 0 for an order that is no
\* freebie, Partial implies 0 < amountPaid < totalPrice.
C27_PaymentStatusAgreesWithAmounts ==
    \A i \in 1..Len(orders) : PaymentAgrees(orders[i])

\* a save changed one of the edited fields of an order of the group
SaveChanged(d, order) ==
    \E i \in 1..Len(order.items) :
        LET before == order.items[i]
            after == RowOf(d, before)
        IN \/ after.paymentStatus # before.paymentStatus
           \/ after.shippingStatus # before.shippingStatus
           \/ after.paymentMethod # before.paymentMethod
           \/ after.referenceNumber # before.referenceNumber
           \/ after.amountPaid # before.amountPaid

\* one line was appended to the logs of every order of the group if the save
\* changed a field, and none otherwise
OneLineIfChanged(d, order) ==
    \A i \in 1..Len(order.items) :
        LET before == order.items[i]
            after == RowOf(d, before)
        IN IF SaveChanged(d, order)
           THEN /\ Len(after.logs) = Len(before.logs) + 1
                /\ SubSeq(after.logs, 1, Len(before.logs)) = before.logs
           ELSE after.logs = before.logs

\* C17: a save that changes at least one field appends exactly one new log
\* line to the logs of every order of the group and leaves the earlier lines
\* in place and in order; a save that changes nothing appends no line.
C17_OneLogLinePerChangingSave ==
    view = "orders"
    => \A u \in GroupedUsers(DB) :
          LET order == GroupOf(DB, u)
          IN /\ \A formData \in FormDatas(order) :
                   updateWhole(formData)
                   => OneLineIfChanged(handleSaveClick(DB, order, formData), order)
             /\ \A c \in RowCommits(order) :
                   OneLineIfChanged(commitChange(DB, order, c.field, c.value), order)

\* the change row a change of a field from old to new is to decode to
ExpectedRow(label, old, new) ==
    [label |-> <<label>>, oldVal |-> Shown(old), newVal |-> Shown(new)]

\* the rows of a StatusModal save: one per changed field
ExpectedRows(order, formData) ==
    (IF formData.paymentStatus # order.paymentStatus
     THEN <<ExpectedRow("Status", Tokens(order.paymentStatus),
                        Tokens(formData.paymentStatus))>>
     ELSE <<>>)
    \o (IF formData.amountPaid # order.amountPaid
        THEN <<ExpectedRow("Paid", <<Peso>> \o NumberText(order.amountPaid),
                           <<Peso>> \o NumberText(formData.amountPaid))>>
        ELSE <<>>)
    \o (IF formData.shippingStatus # order.shippingStatus
        THEN <<ExpectedRow("Shipping", Tokens(order.shippingStatus),
                           Tokens(formData.shippingStatus))>>
        ELSE <<>>)
    \o (IF formData.referenceNumber # order.referenceNumber
        THEN <<ExpectedRow("Ref", Tokens(LocalValue(order, "referenceNumber")),
                           Tokens(formData.referenceNumber))>>
        ELSE <<>>)

\* C18: every audit-log line the order editors write decodes to exactly one
\* change row per changed field, labelled Status, Paid, Shipping or Ref and
\* showing the old and the new value (no value here holds ', Status:',
\* ', Paid:', ', Shipping:' or ', Ref:').
C18_LogLinesDecode ==
    view = "orders"
    => \A u \in GroupedUsers(DB) :
          LET order == GroupOf(DB, u)
          IN /\ \A formData \in FormDatas(order) :
                   saveLog(order, formData) # NoLog
                   => LogItem(saveLog(order, formData)) = ExpectedRows(order, formData)
             /\ \A c \in RowCommits(order) :
                   LET rows == LogItem(commitChangeLog(order, c.field, c.value))
                   IN /\ Len(rows) = 1
                      /\ rows[1].label \in {<<l>> : l \in Labels}
                      /\ rows[1].oldVal = Shown(Tokens(LocalValue(order, c.field)))
                      /\ rows[1].newVal = Shown(Tokens(c.value))

(***************************************************************************)
(* Properties of the remote sync (SyncSpec)                                *)
(***************************************************************************)
\* the stores d and e hold the same order, customer and product rows
SameRows(d, e) ==
    /\ {d.orders[i] : i \in 1..Len(d.orders)} = {e.orders[i] : i \in 1..Len(e.orders)}
    /\ d.customers = e.customers
    /\ d.products = e.products

\* C20: a read of a collection returns the last value a local mutator
\* committed: a step of syncWithSupabase or of the realtime refresh, whether
\* it runs before the mirror call of a local write has completed or after
\* that call has failed, removes and reverts no order, customer or product
\* that was written locally.
C20_LocalWritesSurviveSync ==
    [][lastCall'.op \in {"syncWithSupabase", "realtime"} => SameRows(DB, DBNext)]_vars

(***************************************************************************)
(* Properties of the access gate (GateSpec)                                *)
(***************************************************************************)

\* a call of registerOrCheckDevice by c is in flight
inCall(c) == app.calls[c].pc \in {"check", "wait"}

\* C21: a call of registerOrCheckDevice makes at most 3 attempts; when it
\* returns after k failed attempts it has waited 1000 ms after the first and
\* 2000 ms after the second failure and nothing else; it returns null exactly
\* when 3 attempts have failed, and else the row the first successful attempt
\* has read or registered; a null returned to initApp sets checkStatus to
\* 'error'; and every call returns.
C21_RegisterRetriesThreeTimes ==
    /\ [](\A c \in Callers : app.calls[c].i <= 2)
    /\ [](lastCall.op = "registerOrCheckDevice" =>
            /\ lastCall.failed <= 3
            /\ lastCall.waits = SubSeq(<<1000, 2000>>, 1, Min(lastCall.failed, 2))
            /\ (lastCall.device = NullDevice) <=> (lastCall.failed = 3)
            /\ lastCall.device # NullDevice =>
                  /\ lastCall.device = devices.row
                  /\ lastCall.device.status \in DeviceStatus
            /\ (lastCall.caller = "initApp" /\ lastCall.device = NullDevice)
                  => app.checkStatus = "error")
    /\ \A c \in Callers : inCall(c) ~> ~inCall(c)

\* initApp's call has failed three times and the error screen is shown
C21_Witness ==
    /\ lastCall.op = "registerOrCheckDevice"
    /\ lastCall.caller = "initApp"
    /\ lastCall.failed = 3
    /\ lastCall.waits = <<1000, 2000>>
    /\ screen(app) = "error"

\* the remote row of the device is not approved: blocked, reset to pending,
\* or deleted (and registered anew as pending by the next check)
notApprovedRemotely == devices.row.status # "approved"

\* C29: the main application is shown only while checkStatus is 'approved',
\* and whenever the gate is 'approved' while the remote row of the device is
\* not, the gate leaves 'approved' (or the row is approved again).
C29_HeartbeatRevokesApproval ==
    /\ [](screen(app) = "main" => app.checkStatus = "approved")
    /\ (app.checkStatus = "approved" /\ notApprovedRemotely)
          ~> (app.checkStatus # "approved" \/ ~notApprovedRemotely)

\* C30: once checkStatus is 'blocked' no step sets it to 'approved'.
C30_BlockedStaysBlocked ==
    [][app.checkStatus = "blocked" => app'.checkStatus # "approved"]_vars

====
